---------------------------- MODULE Spec2Model ----------------------------
(***************************************************************************)
(* XuraLight: the content retrieval and batch orchestration pipeline of    *)
(* src/aggregator.py (download_and_convert_to_text, sanitize_filename,     *)
(* save_abstract_with_audio, process_crawler_output) over the article      *)
(* store of src/db.py.                                                     *)
(*                                                                         *)
(* Texts are run-length encoded: a text is a sequence of runs              *)
(* [c |-> character, n |-> count] in which adjacent runs hold different    *)
(* characters, so that a text of 130,000 characters is one run and the     *)
(* program's length limits keep their real values.                         *)
(***************************************************************************)
EXTENDS Integers, Sequences, FiniteSets, TLC

(***************************************************************************)
(* Program constants.                                                      *)
(***************************************************************************)
MAX_SUMMARY_TEXT_LENGTH == 120000
max_retries == 2
RETRY_DELAY == 3
max_length == 100

(***************************************************************************)
(* Bounds of the model.                                                    *)
(***************************************************************************)
MaxItems == 2

(***************************************************************************)
(* Run-length encoded text.                                                *)
(***************************************************************************)
\* Optional values: None, or Some(x).
None == <<>>

Some(x) == <<x>>

Value(o) == o[1]

Run(c, n) == [c |-> c, n |-> n]

Last(s) == s[Len(s)]

Front(s) == SubSeq(s, 1, Len(s) - 1)

RECURSIVE TextLen(_)
TextLen(t) == IF t = <<>> THEN 0 ELSE Head(t).n + TextLen(Tail(t))

\* Appends run x to the canonical text acc, merging it into the last run when
\* both hold the same character.
Emit(acc, x) ==
    IF x.n = 0 THEN acc
    ELSE IF acc # <<>> /\ Last(acc).c = x.c
         THEN Append(Front(acc), Run(x.c, Last(acc).n + x.n))
         ELSE Append(acc, x)

RECURSIVE Concat(_, _)
Concat(s, t) == IF t = <<>> THEN s ELSE Concat(Emit(s, Head(t)), Tail(t))

\* str.isspace() of one character, and the class [^\S\n].
IsSpaceChar(c) == c \in {"SP", "TAB", "NL", "CR"}

IsBlankChar(c) == c \in {"SP", "TAB", "CR"}

RECURSIVE LStrip(_)
LStrip(t) ==
    IF t = <<>> THEN <<>>
    ELSE IF IsSpaceChar(Head(t).c) THEN LStrip(Tail(t)) ELSE t

RECURSIVE RStrip(_)
RStrip(t) ==
    IF t = <<>> THEN <<>>
    ELSE IF IsSpaceChar(Last(t).c) THEN RStrip(Front(t)) ELSE t

\* str.strip()
Strip(t) == RStrip(LStrip(t))

\* str.isspace(): non-empty and whitespace only.
IsSpace(t) == t # <<>> /\ \A i \in 1..Len(t) : IsSpaceChar(t[i].c)

\* text[:k]
RECURSIVE Take(_, _)
Take(t, k) ==
    IF k <= 0 \/ t = <<>> THEN <<>>
    ELSE IF Head(t).n <= k
         THEN <<Head(t)>> \o Take(Tail(t), k - Head(t).n)
         ELSE <<Run(Head(t).c, k)>>

\* re.sub(r'\n{3,}', '\n\n', text)
SubNewlines(t) ==
    [i \in 1..Len(t) |->
        IF t[i].c = "NL" /\ t[i].n >= 3 THEN Run("NL", 2) ELSE t[i]]

\* re.sub(r'[^\S\n]+', ' ', text): every maximal stretch of blanks becomes
\* one space.
RECURSIVE SubBlanksFrom(_, _)
SubBlanksFrom(t, acc) ==
    IF t = <<>> THEN acc
    ELSE IF IsBlankChar(Head(t).c)
         THEN IF acc # <<>> /\ Last(acc).c = "SP"
              THEN SubBlanksFrom(Tail(t), acc)
              ELSE SubBlanksFrom(Tail(t), Append(acc, Run("SP", 1)))
         ELSE SubBlanksFrom(Tail(t), Append(acc, Head(t)))

SubBlanks(t) == SubBlanksFrom(t, <<>>)

\* re.sub(r'\s+', ' ', text): every maximal stretch of whitespace becomes
\* one space.
RECURSIVE SubWhitespaceFrom(_, _)
SubWhitespaceFrom(t, acc) ==
    IF t = <<>> THEN acc
    ELSE IF IsSpaceChar(Head(t).c)
         THEN IF acc # <<>> /\ Last(acc).c = "SP"
              THEN SubWhitespaceFrom(Tail(t), acc)
              ELSE SubWhitespaceFrom(Tail(t), Append(acc, Run("SP", 1)))
         ELSE SubWhitespaceFrom(Tail(t), Append(acc, Head(t)))

SubWhitespace(t) == SubWhitespaceFrom(t, <<>>)


(***************************************************************************)
(* download_and_convert_to_text: the handling of one successful response.  *)
(***************************************************************************)
\* 'application/pdf' in content_type, 'html' in ... or 'xml' in ...,
\* 'text/' in content_type
IsPdfType(ct) == ct \in {"application/pdf"}

IsMarkupType(ct) == ct \in {"text/html; charset=utf-8", "application/xml"}

IsTextType(ct) == ct \in {"text/html; charset=utf-8", "text/plain"}

\* The page texts of the PDF joined, whitespace collapsed, trimmed. A PDF the
\* library cannot read yields the empty text.
extract_text_from_pdf(pages) == Strip(SubWhitespace(pages))

\* The text of a response by content type; body is what the library's
\* conversion yields (page text, html2text output, response.text).
ExtractText(ct, body) ==
    IF IsPdfType(ct) THEN extract_text_from_pdf(body) ELSE body

\* text.strip(), then the two substitutions.
CleanText(text) == SubBlanks(SubNewlines(Strip(text)))

\* The emptiness check left out.
IsEmptyTextNever(text) == FALSE

\* if not text or text.isspace()
IsEmptyText(text) == text = <<>> \/ IsSpace(text)

\* The slice one character too long.
LimitTextOffByOne(text) ==
    IF TextLen(text) > MAX_SUMMARY_TEXT_LENGTH
    THEN Take(text, MAX_SUMMARY_TEXT_LENGTH + 1)
    ELSE text

\* if len(text) > MAX_SUMMARY_TEXT_LENGTH: text = text[:MAX_SUMMARY_TEXT_LENGTH]
LimitText(text) ==
    IF TextLen(text) > MAX_SUMMARY_TEXT_LENGTH
    THEN Take(text, MAX_SUMMARY_TEXT_LENGTH)
    ELSE text

\* What the call returns for a response that raised nothing: the text, or
\* None for a text that is empty after cleaning.
ConvertResponse(ct, body) ==
    LET text == CleanText(ExtractText(ct, body))
    IN IF IsEmptyText(text) THEN None ELSE Some(LimitText(text))

(***************************************************************************)
(* sanitize_filename                                                       *)
(***************************************************************************)
\* unsafe_chars: the full-width substitute of a character, or an underscore
\* for whitespace.
ReplaceUnsafe(c) ==
    CASE c = "/" -> "FW/"
      [] c = "\\" -> "FW\\"
      [] c = ":" -> "FW:"
      [] c = "*" -> "FW*"
      [] c = "?" -> "FW?"
      [] c = "\"" -> "FW\""
      [] c = "<" -> "FW<"
      [] c = ">" -> "FW>"
      [] c = "|" -> "FW|"
      [] c = "NL" -> "_"
      [] c = "CR" -> "_"
      [] c = "TAB" -> "_"
      [] c = "SP" -> "_"
      [] OTHER -> c

RECURSIVE ReplaceAll(_, _)
ReplaceAll(t, acc) ==
    IF t = <<>> THEN acc
    ELSE ReplaceAll(Tail(t), Emit(acc, Run(ReplaceUnsafe(Head(t).c), Head(t).n)))

\* while '__' in safe_title: safe_title = safe_title.replace('__', '_')
CollapseUnderscores(t) ==
    [i \in 1..Len(t) |-> IF t[i].c = "_" THEN Run("_", 1) ELSE t[i]]

\* The title cut at max_length, nothing appended.
sanitize_filename_cut_only(title) ==
    LET safe_title == CollapseUnderscores(Strip(ReplaceAll(title, <<>>)))
    IN Take(safe_title, max_length)

sanitize_filename(title) ==
    LET safe_title == CollapseUnderscores(Strip(ReplaceAll(title, <<>>)))
    IN IF TextLen(safe_title) > max_length
       THEN Emit(Take(safe_title, max_length - 3), Run(".", 3))
       ELSE safe_title

(***************************************************************************)
(* Encodings of a summary, and the parsing of published_date.              *)
(***************************************************************************)
Utf8Bytes(ch) == CASE ch = "a" -> 1 [] ch = "zh" -> 3 [] ch = "emoji" -> 4 [] OTHER -> 0

GbkBytes(ch) == CASE ch = "a" -> 1 [] ch = "zh" -> 2 [] OTHER -> 0

\* UTF-8 encodes every character but a lone surrogate; GBK encodes neither a
\* surrogate nor an emoji.
Utf8Encodable(s) == \A i \in 1..Len(s) : s[i] # "sur"

GbkEncodable(s) == \A i \in 1..Len(s) : s[i] \notin {"sur", "emoji"}

RECURSIVE Utf8Size(_)
Utf8Size(s) == IF s = <<>> THEN 0 ELSE Utf8Bytes(Head(s)) + Utf8Size(Tail(s))

RECURSIVE GbkSize(_)
GbkSize(s) == IF s = <<>> THEN 0 ELSE GbkBytes(Head(s)) + GbkSize(Tail(s))

\* str.replace('Z', '+00:00') on the tokens of a date string.
ReplaceZ(tokens) ==
    [i \in 1..Len(tokens) |-> IF tokens[i] = "Z" THEN "+00:00" ELSE tokens[i]]

\* datetime.fromisoformat(s).timestamp(): the epoch seconds, or None where
\* fromisoformat raises ValueError.
FromIsoFormat(tokens) ==
    IF tokens \in {<<"2024-01-01T00:00:00", "+00:00">>, <<"2024-01-01T00:00:00">>}
    THEN Some(1704067200)
    ELSE None

\* datetime.fromtimestamp(timestamp).strftime('%Y%m%d'): the day of the
\* timestamp (as a day number).
DateStr(timestamp) == timestamp \div 86400

\* re.search(r'news\.ycombinator\.com/item\?id=(\d+)', comments_url)
HnMatch(comments_url) ==
    IF comments_url = "https://news.ycombinator.com/item?id=1" THEN Some("1") ELSE None

(***************************************************************************)
(* download_hackernews_comments: the flattening of the comment tree.       *)
(***************************************************************************)
\* The truth value of a JSON string or null: a non-empty string.
Truthy(j) == j.t = "str" /\ j.v # <<>>

\* 'text' in item and item['text']
HasText(item) == "text" \in DOMAIN item /\ Truthy(item.text)

\* 'children' in item and item['children']
HasChildren(item) == "children" \in DOMAIN item /\ item.children # <<>>

\* A word as a text, one run per letter.
Word(letters) == [i \in 1..Len(letters) |-> Run(letters[i], 1)]

\* item.get('author', 'anonymous') as the f-string prints it: the default
\* for a missing key only, 'None' for null.
AuthorName(item) ==
    IF "author" \notin DOMAIN item
    THEN Word(<<"a", "n", "o", "n", "y", "m", "o", "u", "s">>)
    ELSE IF item.author.t = "null" THEN Word(<<"N", "o", "n", "e">>)
    ELSE item.author.v

\* "  " * level
Indent(level) == IF level = 0 THEN <<>> ELSE <<Run("SP", 2 * level)>>

\* f"{indent}[{author}]: {comment_text}" with comment_text the converted
\* text of the node, stripped.
CommentLine(item, level) ==
    Concat(Concat(Concat(Concat(Indent(level), <<Run("[", 1)>>), AuthorName(item)),
                  <<Run("]", 1), Run(":", 1), Run("SP", 1)>>),
           Strip(item.text.v))

RECURSIVE extract_comments(_, _)
RECURSIVE ExtendWithChildren(_, _, _)
\* for child in item['children']: comments.extend(extract_comments(child, level))
ExtendWithChildren(comments, children, level) ==
    IF children = <<>> THEN comments
    ELSE ExtendWithChildren(comments \o extract_comments(Head(children), level),
                            Tail(children), level)

\* The children flattened at the level of their parent.
extract_comments_same_level(item, level) ==
    IF item = <<>> THEN <<>>
    ELSE LET own == IF HasText(item) THEN <<CommentLine(item, level)>> ELSE <<>>
         IN IF HasChildren(item)
            THEN ExtendWithChildren(own, item.children, level)
            ELSE own

extract_comments(item, level) ==
    IF item = <<>> THEN <<>>
    ELSE LET own == IF HasText(item) THEN <<CommentLine(item, level)>> ELSE <<>>
         IN IF HasChildren(item)
            THEN ExtendWithChildren(own, item.children, level + 1)
            ELSE own

\* "\n\n".join(all_comments)
RECURSIVE JoinLines(_)
JoinLines(lines) ==
    IF lines = <<>> THEN <<>>
    ELSE IF Len(lines) = 1 THEN Head(lines)
    ELSE Concat(Concat(Head(lines), <<Run("NL", 2)>>), JoinLines(Tail(lines)))

\* The value returned for the parsed response: the joined lines, or None
\* when there is no line.
FlattenComments(data) ==
    LET all_comments == extract_comments(data, 0)
    IN IF all_comments # <<>> THEN Some(JoinLines(all_comments)) ELSE None

(***************************************************************************)
(* Inputs: what the crawler, the network, the summarizer and the file      *)
(* system can hand to the pipeline.                                        *)
(***************************************************************************)
Runs == {"r1"}

Urls == {"http://x/1", "http://x/2"}

\* JSON values of published_date: a string (a sequence of tokens) or a number.
JStr(v) == [t |-> "str", v |-> v]

JNum(v) == [t |-> "num", v |-> v]

DateUtcZ == JStr(<<"2024-01-01T00:00:00", "Z">>)

DateMalformed == JStr(<<"yesterday">>)

DateNumber == JNum(<<"1704067200">>)

PublishedDates == {DateUtcZ, DateMalformed, DateNumber}

HnCommentsUrl == "https://news.ycombinator.com/item?id=1"

OtherCommentsUrl == "http://x/1/comments"

TitleT == <<Run("T", 1)>>

TitleAB == <<Run("A", 1), Run("/", 1), Run("B", 1)>>

\* Candidate items as the crawler prints them: JSON objects, some without a
\* required key, some with a comments_url.
FullItems ==
    { [url |-> "http://x/1", title |-> TitleT, published_date |-> DateUtcZ],
      [url |-> "http://x/2", title |-> TitleAB, published_date |-> DateMalformed,
       comments_url |-> HnCommentsUrl],
      [url |-> "http://x/2", title |-> TitleT, published_date |-> DateNumber,
       comments_url |-> OtherCommentsUrl] }

PartialItems ==
    { [title |-> TitleT, published_date |-> DateUtcZ],
      [url |-> "http://x/1", published_date |-> DateUtcZ],
      [url |-> "http://x/2", title |-> TitleT] }

CandidateItems == FullItems \cup PartialItems

CandidateLists == UNION {[1..n -> CandidateItems] : n \in 0..MaxItems}

SourceInfos == {[id |-> 0, name |-> <<Run("H", 1), Run("SP", 1), Run("N", 1)>>]}

BlankText == <<Run("SP", 2), Run("NL", 1)>>

MessyText ==
    <<Run("SP", 1), Run("a", 2), Run("NL", 4), Run("TAB", 1), Run("SP", 2),
      Run("a", 1), Run("NL", 1)>>

\* Response bodies after the library's conversion (html2text output, PDF
\* page text, response.text).
RawTexts ==
    { BlankText, MessyText,
      <<Run("a", 119999), Run("NL", 3), Run("a", 9999)>> }

\* The bodies of a comments page: blank, or short.
CommentPages == {BlankText, MessyText}

ContentTypes == {"application/pdf", "text/html; charset=utf-8", "text/plain",
                 "application/octet-stream"}

\* Summaries the summarizer returns: sequences of character classes (ASCII,
\* CJK, emoji, lone surrogate).
Summaries == {<<>>, <<"a", "zh">>, <<"a", "sur">>}

\* A node of the comment tree the Algolia API returns: a JSON object whose
\* keys text, author and children may each be missing.
JNull == [t |-> "null", v |-> <<>>]

Node(text, author, children) ==
    [text |-> text, author |-> author, children |-> children]

NodeNoAuthor(text, children) == [text |-> text, children |-> children]

NodeNoText(children) == [children |-> children]

CommentA == JStr(<<Run("a", 1)>>)

CommentB == JStr(<<Run("SP", 1), Run("b", 2), Run("NL", 1)>>)

AuthorU == JStr(<<Run("u", 1)>>)

\* The story of the spec's example: a root with two children, the second
\* with one grandchild, every node with a text.
ExampleTree ==
    Node(CommentA, AuthorU,
         << NodeNoAuthor(CommentB, <<>>),
            Node(CommentA, JNull,
                 << Node(CommentB, JStr(<<>>), <<>>) >>) >>)

\* A link story: the root has no text, its one comment has.
LinkStoryTree == NodeNoText(<< Node(CommentA, AuthorU, <<>>) >>)

\* A story nobody commented on.
EmptyTree == [author |-> AuthorU, text |-> JNull, children |-> <<>>]

\* What response.json() yields: it raises on a body that is no JSON.
HnPayloads ==
    {[t |-> "invalid", data |-> <<>>]}
        \cup {[t |-> "json", data |-> d] :
                 d \in {ExampleTree, LinkStoryTree, EmptyTree}}

(***************************************************************************)
(* State.                                                                  *)
(***************************************************************************)
VARIABLES
    run,     \* per run of the pipeline: its position and local variables
    store,   \* the articles table of src/db.py
    files,   \* the file system: path -> size in bytes
    clock    \* wall clock, in seconds

vars == <<run, store, files, clock>>


\* A row of the articles table for a URL stored by an earlier run, and the
\* abstract file it names.
StoredTitle(u) == IF u = "http://x/1" THEN <<Run("S", 1)>> ELSE <<Run("S", 2)>>

StoredPath(u) ==
    [root |-> "abstraction", source |-> <<Run("H", 1), Run("_", 1), Run("N", 1)>>,
     day |-> DateStr(1704067200), ts |-> 1704067200, title |-> StoredTitle(u),
     ext |-> ".txt"]

StoredArticle(u) ==
    [id |-> IF u = "http://x/1" THEN 1 ELSE 2, url |-> u, title |-> StoredTitle(u), source |-> 0,
     abstract_file |-> Some(StoredPath(u)), publish_timestamp |-> 1704067200,
     audio_file |-> None]

\* The counters of what the batch did for one candidate item.
NoEffects ==
    [lookups |-> 0, downloads |-> 0, comment_downloads |-> 0, summaries |-> 0,
     writes |-> 0]

Locals ==
    [target |-> "none", url |-> "", retry_count |-> 0, proxies |-> FALSE,
     dlog |-> <<>>, dl_clean |-> <<>>, dl_result |-> None, text |-> <<>>, comments_text |-> <<>>,
     result |-> <<>>, timestamp |-> 0, abstract_file |-> None, audio_file |-> None]

InitRun ==
    [pc |-> "start", output |-> [t |-> "list", items |-> <<>>], limit |-> None,
     source_info |-> [id |-> 0, name |-> <<>>],
     articles |-> <<>>, idx |-> 0, processed_articles |-> <<>>,
     ret |-> <<>>, crashed |-> FALSE, outcome |-> <<>>, eff |-> <<>>,
     loc |-> Locals]

Init ==
    /\ run = [r \in Runs |-> InitRun]
    /\ \E S \in SUBSET Urls :
          /\ store = {StoredArticle(u) : u \in S}
          /\ files = [p \in {StoredPath(u) : u \in S} |-> 1]
    /\ clock = 1793600000


(***************************************************************************)
(* Helpers of the actions.                                                 *)
(***************************************************************************)
Upd(r, rec) == run' = [run EXCEPT ![r] = rec]

Min(a, b) == IF a < b THEN a ELSE b

\* The failures the environment may still cause in a run: any number where
\* the run carries no budget.
CanFail(rs) == IF "budget" \in DOMAIN rs THEN rs.budget > 0 ELSE TRUE

Spend(rs) == IF "budget" \in DOMAIN rs THEN [rs EXCEPT !.budget = @ - 1] ELSE rs

\* What the network and the summarizer may answer in a run: every response
\* and summary where the run names no world of its own.
RawTextsOf(rs) == IF "world" \in DOMAIN rs THEN rs.world.texts ELSE RawTexts

ContentTypesOf(rs) == IF "world" \in DOMAIN rs THEN rs.world.types ELSE ContentTypes

\* The bodies the server of the URL being downloaded may answer with.
BodiesOf(rs) ==
    IF rs.loc.target = "comments" THEN RawTextsOf(rs) \cap CommentPages
    ELSE RawTextsOf(rs)

SummariesOf(rs) == IF "world" \in DOMAIN rs THEN rs.world.summaries ELSE Summaries

\* One more of an effect for the current item.
Bump(rs, what) == [rs EXCEPT !.eff[rs.idx][what] = @ + 1]

\* continue: on to the next item, the current one left with outcome why.
Skip(rs, why) ==
    [rs EXCEPT !.pc = "loop", !.idx = @ + 1, !.outcome[rs.idx] = why,
               !.loc = Locals]

\* except Exception around the whole batch: log, return [].
Crash(rs) ==
    [rs EXCEPT !.pc = "returned", !.ret = <<>>, !.crashed = TRUE,
               !.outcome = IF rs.idx \in DOMAIN rs.outcome
                           THEN [rs.outcome EXCEPT ![rs.idx] = "crash"]
                           ELSE rs.outcome,
               !.loc = Locals]

\* A lookup that never finds the row.
get_article_by_url_miss(url) == None

\* db.get_article_by_url
get_article_by_url(url) ==
    IF \E a \in store : a.url = url
    THEN Some(CHOOSE a \in store : a.url = url)
    ELSE None

\* The article put in front of the list.
PrependArticle(list, article) == <<article>> \o list

\* processed_articles.append(...)
AppendArticle(list, article) == Append(list, article)

\* The file system after path was written with size bytes.
WriteFile(fs, path, size) ==
    [p \in DOMAIN fs \cup {path} |-> IF p = path THEN size ELSE fs[p]]

Exists(fs, path) == path \in DOMAIN fs

(***************************************************************************)
(* process_crawler_output: entry.  json.loads, the list check, the limit.  *)
(***************************************************************************)
Limits == {None, Some(0), Some(1)}

Outputs ==
    {[t |-> "list", items |-> l] : l \in CandidateLists}
        \cup {[t |-> "object", items |-> <<>>]}

\* The slice one item too long.
SliceOneMore(items, limit) ==
    IF limit = None THEN items
    ELSE SubSeq(items, 1, Min(Value(limit) + 1, Len(items)))

\* articles[:limit]
Slice(items, limit) ==
    IF limit = None THEN items ELSE SubSeq(items, 1, Min(Value(limit), Len(items)))

\* The call process_crawler_output(output, source_info, limit): the state
\* at the head of the loop, or the return after the list check raised.
EnterBatch(rs, output, limit, info) ==
    LET called == [rs EXCEPT !.output = output, !.limit = limit,
                             !.source_info = info]
        articles == Slice(output.items, limit)
    IN IF output.t # "list"
       THEN Crash(called)
       ELSE [called EXCEPT
               !.articles = articles,
               !.idx = 1,
               !.processed_articles = <<>>,
               !.outcome = [i \in 1..Len(articles) |-> "none"],
               !.eff = [i \in 1..Len(articles) |-> NoEffects],
               !.pc = "loop"]

Start(r) ==
    LET rs == run[r] IN
    /\ rs.pc = "start"
    /\ \E output \in Outputs, limit \in Limits, info \in SourceInfos :
          Upd(r, EnterBatch(rs, output, limit, info))
    /\ UNCHANGED <<store, files, clock>>

(***************************************************************************)
(* The head of the loop: the end of the list, the required keys, the       *)
(* lookup in the store, the call of download_and_convert_to_text.          *)
(***************************************************************************)
RequiredKeys == {"url", "title", "published_date"}

\* The check without published_date.
HasUrlAndTitle(article) == {"url", "title"} \subseteq DOMAIN article

HasRequiredKeys(article) == RequiredKeys \subseteq DOMAIN article

BeginDownload(rs, target, url) ==
    [rs EXCEPT !.pc = "download",
               !.loc.target = target, !.loc.url = url,
               !.loc.retry_count = 0, !.loc.proxies = FALSE,
               !.loc.dlog = <<>>, !.loc.dl_clean = <<>>, !.loc.dl_result = None]

Return(r) ==
    LET rs == run[r] IN
    /\ rs.pc = "loop"
    /\ rs.idx > Len(rs.articles)
    /\ Upd(r, [rs EXCEPT !.pc = "returned", !.ret = rs.processed_articles])
    /\ UNCHANGED <<store, files, clock>>

SkipInvalid(r) ==
    LET rs == run[r] IN
    /\ rs.pc = "loop"
    /\ rs.idx <= Len(rs.articles)
    /\ ~HasRequiredKeys(rs.articles[rs.idx])
    /\ Upd(r, Skip(rs, "invalid"))
    /\ UNCHANGED <<store, files, clock>>

\* get_article_by_url raises (the database is locked or unreadable).
LookupFails(r) ==
    LET rs == run[r] IN
    /\ rs.pc = "loop"
    /\ rs.idx <= Len(rs.articles)
    /\ HasRequiredKeys(rs.articles[rs.idx])
    /\ CanFail(rs)
    /\ Upd(r, Crash(Bump(Spend(rs), "lookups")))
    /\ UNCHANGED <<store, files, clock>>

Lookup(r) ==
    LET rs == run[r] IN
    /\ rs.pc = "loop"
    /\ rs.idx <= Len(rs.articles)
    /\ HasRequiredKeys(rs.articles[rs.idx])
    /\ LET article == rs.articles[rs.idx]
           looked == Bump(rs, "lookups")
       IN IF get_article_by_url(article.url) # None
          THEN Upd(r, Skip(looked, "exists"))
          ELSE Upd(r, BeginDownload(Bump(looked, "downloads"), "article", article.url))
    /\ UNCHANGED <<store, files, clock>>


(***************************************************************************)
(* download_and_convert_to_text: one pass of the retry loop per action.    *)
(***************************************************************************)
\* The request of this pass: the proxies are passed from the first retry on.
Get(rs, res) ==
    [e |-> "GET", at |-> clock, res |-> res, proxy |-> rs.loc.retry_count > 0,
     d |-> 0]

Sleep(d) == [e |-> "SLEEP", at |-> clock, res |-> "slept", proxy |-> FALSE, d |-> d]

\* return from the call: the caller sees value next.
Returned(rs, value) == [rs EXCEPT !.pc = "fetched", !.loc.dl_result = value]

\* The loop left one pass early.
AfterRaiseOnePassShort(rs) ==
    IF rs.loc.retry_count < max_retries THEN rs ELSE Returned(rs, None)

\* The exit of the while loop: all passes raised, return None.
AfterRaise(rs) ==
    IF rs.loc.retry_count <= max_retries THEN rs ELSE Returned(rs, None)

\* The request, raise_for_status or the conversion raises: count the retry,
\* switch to the proxy, sleep.
AttemptRaises(r) ==
    LET rs == run[r] IN
    /\ rs.pc = "download"
    /\ rs.loc.retry_count <= max_retries
    /\ CanFail(rs)
    /\ Upd(r, AfterRaise([Spend(rs) EXCEPT
                            !.loc.retry_count = @ + 1,
                            !.loc.proxies = TRUE,
                            !.loc.dlog = @ \o <<Get(rs, "raised"), Sleep(RETRY_DELAY)>>]))
    /\ clock' = clock + RETRY_DELAY
    /\ UNCHANGED <<store, files>>

\* An empty text handled like a raise: counted, slept on and tried again.
AttemptRespondsRetryingEmpty(r) ==
    LET rs == run[r] IN
    /\ rs.pc = "download"
    /\ rs.loc.retry_count <= max_retries
    /\ \E ct \in ContentTypes, body \in RawTexts :
          LET value == ConvertResponse(ct, body)
          IN IF value = None
             THEN /\ Upd(r, AfterRaise([rs EXCEPT
                            !.loc.retry_count = @ + 1,
                            !.loc.proxies = TRUE,
                            !.loc.dlog = @ \o <<Get(rs, "empty"), Sleep(RETRY_DELAY)>>]))
                  /\ clock' = clock + RETRY_DELAY
             ELSE /\ Upd(r, Returned([rs EXCEPT
                                !.loc.dlog = Append(@, Get(rs, "text")),
                                !.loc.dl_clean = CleanText(ExtractText(ct, body))],
                             value))
                  /\ UNCHANGED clock
    /\ UNCHANGED <<store, files>>

\* A response arrives and is converted: the text, or None for an empty one.
AttemptResponds(r) ==
    LET rs == run[r] IN
    /\ rs.pc = "download"
    /\ rs.loc.retry_count <= max_retries
    /\ \E ct \in ContentTypesOf(rs), body \in BodiesOf(rs) :
          LET value == ConvertResponse(ct, body)
          IN Upd(r, Returned([rs EXCEPT
                                !.loc.dlog = Append(@, Get(rs,
                                    IF value = None THEN "empty" ELSE "text")),
                                !.loc.dl_clean = CleanText(ExtractText(ct, body))],
                             value))
    /\ UNCHANGED <<store, files, clock>>

\* A response of no known content type whose body cannot be decoded:
\* return None.
AttemptUndecodable(r) ==
    LET rs == run[r] IN
    /\ rs.pc = "download"
    /\ rs.loc.retry_count <= max_retries
    /\ \E ct \in ContentTypesOf(rs) :
          /\ ~IsPdfType(ct) /\ ~IsMarkupType(ct) /\ ~IsTextType(ct)
          /\ CanFail(rs)
          /\ Upd(r, Returned([Spend(rs) EXCEPT
                                !.loc.dlog = Append(@, Get(rs, "undecodable"))],
                             None))
    /\ UNCHANGED <<store, files, clock>>

(***************************************************************************)
(* process_crawler_output after the download: skip without a text, then    *)
(* the comments.                                                           *)
(***************************************************************************)
HasComments(article) ==
    "comments_url" \in DOMAIN article /\ article.comments_url # ""

\* not text: None, or the empty string.
NotText(value) == value = None \/ Value(value) = <<>>

\* An item without a comments text given up.
AfterCommentsOrSkip(rs, comments_text) ==
    IF comments_text = <<>>
    THEN Skip(rs, "nofetch")
    ELSE [rs EXCEPT !.pc = "summarize",
                    !.loc.comments_text = comments_text,
                    !.loc.dlog = <<>>, !.loc.dl_clean = <<>>, !.loc.dl_result = None]

AfterComments(rs, comments_text) ==
    [rs EXCEPT !.pc = "summarize",
               !.loc.comments_text = comments_text,
               !.loc.dlog = <<>>, !.loc.dl_clean = <<>>, !.loc.dl_result = None]

AfterDownload(r) ==
    LET rs == run[r]
        article == rs.articles[rs.idx]
        value == rs.loc.dl_result
    IN
    /\ rs.pc = "fetched"
    /\ IF rs.loc.target = "article"
       THEN IF NotText(value)
            THEN Upd(r, Skip(rs, "nofetch"))
            ELSE LET got == [rs EXCEPT !.loc.text = Value(value)]
                 IN IF ~HasComments(article)
                    THEN Upd(r, AfterComments(got, <<>>))
                    ELSE IF HnMatch(article.comments_url) # None
                         THEN Upd(r, [Bump(got, "comment_downloads") EXCEPT
                                                 !.pc = "hn_comments",
                                                 !.loc.target = "hn",
                                                 !.loc.proxies = FALSE,
                                                 !.loc.dlog = <<>>,
                                                 !.loc.dl_clean = <<>>,
                                                 !.loc.dl_result = None])
                         ELSE Upd(r, BeginDownload(Bump(got, "comment_downloads"),
                                                   "comments", article.comments_url))
       ELSE Upd(r, AfterComments(rs, IF NotText(value) THEN <<>> ELSE Value(value)))
    /\ UNCHANGED <<store, files, clock>>

(***************************************************************************)
(* download_hackernews_comments: the direct request, the request through   *)
(* the proxy, the parsed tree.                                             *)
(***************************************************************************)
\* The request or raise_for_status raises: the direct one is followed by the
\* request through the proxy, the proxy one ends the call with None.
HnRequestRaises(r) ==
    LET rs == run[r] IN
    /\ rs.pc = "hn_comments"
    /\ CanFail(rs)
    /\ IF ~rs.loc.proxies
       THEN Upd(r, [Spend(rs) EXCEPT !.loc.proxies = TRUE])
       ELSE Upd(r, [Spend(rs) EXCEPT !.pc = "hn_fetched", !.loc.proxies = FALSE,
                                     !.loc.dl_result = None])
    /\ UNCHANGED <<store, files, clock>>

\* A response arrives: response.json() raises or yields the tree, which is
\* flattened.
HnComments(r) ==
    LET rs == run[r] IN
    /\ rs.pc = "hn_comments"
    /\ \E payload \in HnPayloads :
          Upd(r, [rs EXCEPT !.pc = "hn_fetched",
                            !.loc.proxies = FALSE,
                            !.loc.dl_result =
                                IF payload.t = "json"
                                THEN FlattenComments(payload.data)
                                ELSE None])
    /\ UNCHANGED <<store, files, clock>>

\* comments_text = download_hackernews_comments(item_id) or ""
AfterHnComments(r) ==
    LET rs == run[r]
        value == rs.loc.dl_result
    IN
    /\ rs.pc = "hn_fetched"
    /\ Upd(r, AfterComments([rs EXCEPT !.loc.proxies = FALSE],
                            IF NotText(value) THEN <<>> ELSE Value(value)))
    /\ UNCHANGED <<store, files, clock>>

(***************************************************************************)
(* summarize, and the publish timestamp.                                   *)
(***************************************************************************)
\* The summarizer called again after it reported a failure.
AfterSummarizeFailureRetry(rs) == [rs EXCEPT !.pc = "summarize"]

\* if not success: log, continue
AfterSummarizeFailure(rs) == Skip(rs, "nosummary")

\* success, result = summarize(text, comments_text) reports a failure.
SummarizeFails(r) ==
    LET rs == run[r] IN
    /\ rs.pc = "summarize"
    /\ CanFail(rs)
    /\ Upd(r, AfterSummarizeFailure(Bump(Spend(rs), "summaries")))
    /\ UNCHANGED <<store, files, clock>>

\* datetime.fromisoformat(published_date.replace('Z', '+00:00')).timestamp(),
\* or the current time on ValueError.
PublishTimestamp(published_date, now) ==
    LET parsed == FromIsoFormat(ReplaceZ(published_date.v))
    IN IF parsed = None THEN now ELSE Value(parsed)

\* Whether computing the timestamp raises something other than ValueError:
\* a value that is no string has no replace().
TimestampRaises(published_date) == published_date.t # "str"

Summarize(r) ==
    LET rs == run[r]
        article == rs.articles[rs.idx]
    IN
    /\ rs.pc = "summarize"
    /\ \E summary \in SummariesOf(rs) :
          LET done == [Bump(rs, "summaries") EXCEPT
                         !.loc.result = summary,
                         !.loc.text = <<>>, !.loc.comments_text = <<>>]
          IN IF TimestampRaises(article.published_date)
             THEN Upd(r, Crash(done))
             ELSE Upd(r, [done EXCEPT
                            !.pc = "save",
                            !.loc.timestamp =
                                PublishTimestamp(article.published_date, clock)])
    /\ UNCHANGED <<store, files, clock>>


(***************************************************************************)
(* save_abstract_with_audio                                                *)
(***************************************************************************)
\* source_name.replace(' ', '_')
RECURSIVE ReplaceSpaces(_, _)
ReplaceSpaces(t, acc) ==
    IF t = <<>> THEN acc
    ELSE ReplaceSpaces(Tail(t),
            Emit(acc, Run(IF Head(t).c = "SP" THEN "_" ELSE Head(t).c, Head(t).n)))

AbstractPath(source_name, timestamp, title) ==
    [root |-> "abstraction", source |-> ReplaceSpaces(source_name, <<>>),
     day |-> DateStr(timestamp), ts |-> timestamp,
     title |-> sanitize_filename(title), ext |-> ".txt"]

\* The verification without the size.
WriteVerifiedExistsOnly(fs, path) == Exists(fs, path)

\* if not abstract_file_path.exists() or abstract_file_path.stat().st_size == 0
WriteVerified(fs, path) == Exists(fs, path) /\ fs[path] > 0

\* The UTF-8 write and its verification: the file system after it and the
\* path returned.
SaveUtf8(fs, path, text) ==
    LET written == WriteFile(fs, path, Utf8Size(text))
    IN [fs |-> written,
        abstract_file |-> IF WriteVerified(written, path) THEN Some(path) ELSE None]

\* except UnicodeEncodeError: the file the UTF-8 open created is empty; the
\* GBK open truncates it again and the text is written in GBK, or that
\* raises too.
SaveGbk(fs, path, text) ==
    IF GbkEncodable(text)
    THEN [fs |-> WriteFile(fs, path, GbkSize(text)), abstract_file |-> Some(path)]
    ELSE [fs |-> WriteFile(fs, path, 0), abstract_file |-> None]

save_abstract_with_audio(fs, text, source_name, timestamp, title) ==
    LET path == AbstractPath(source_name, timestamp, title)
    IN IF Utf8Encodable(text)
       THEN SaveUtf8(fs, path, text)
       ELSE SaveGbk(fs, path, text)

Saved(rs, abstract_file) ==
    [Bump(rs, "writes") EXCEPT !.pc = "saved", !.loc.abstract_file = abstract_file,
                               !.loc.audio_file = None]

Save(r) ==
    LET rs == run[r]
        out == save_abstract_with_audio(files, rs.loc.result, rs.source_info.name,
                                        rs.loc.timestamp, rs.articles[rs.idx].title)
    IN
    /\ rs.pc = "save"
    /\ Upd(r, Saved(rs, out.abstract_file))
    /\ files' = out.fs
    /\ UNCHANGED <<store, clock>>

\* mkdir, open or write raises an OSError: except Exception, return
\* (None, None). The file is absent as before, or was created and is empty.
SaveRaises(r) ==
    LET rs == run[r]
        path == AbstractPath(rs.source_info.name, rs.loc.timestamp,
                             rs.articles[rs.idx].title)
    IN
    /\ rs.pc = "save"
    /\ CanFail(rs)
    /\ Upd(r, Saved(Spend(rs), None))
    /\ \/ UNCHANGED files
       \/ files' = WriteFile(files, path, 0)
    /\ UNCHANGED <<store, clock>>

\* if not abstract_file: continue; else processed_articles.append(...)
AfterSave(r) ==
    LET rs == run[r]
        article == rs.articles[rs.idx]
    IN
    /\ rs.pc = "saved"
    /\ IF rs.loc.abstract_file = None
       THEN Upd(r, Skip(rs, "nowrite"))
       ELSE Upd(r, [Skip(rs, "ok") EXCEPT
                      !.processed_articles =
                          AppendArticle(@, [url |-> article.url,
                                            title |-> article.title,
                                            source_id |-> rs.source_info.id,
                                            abstract_file |-> rs.loc.abstract_file,
                                            audio_file |-> rs.loc.audio_file,
                                            publish_timestamp |-> rs.loc.timestamp])])
    /\ UNCHANGED <<store, files, clock>>

(***************************************************************************)
(* The specification.                                                      *)
(***************************************************************************)
\* One step of the batch after its entry.
BatchStep(r) ==
    \/ Return(r)
    \/ SkipInvalid(r)
    \/ LookupFails(r)
    \/ Lookup(r)
    \/ AttemptRaises(r)
    \/ AttemptResponds(r)
    \/ AttemptUndecodable(r)
    \/ AfterDownload(r)
    \/ HnRequestRaises(r)
    \/ HnComments(r)
    \/ AfterHnComments(r)
    \/ SummarizeFails(r)
    \/ Summarize(r)
    \/ Save(r)
    \/ SaveRaises(r)
    \/ AfterSave(r)

Next == \E r \in Runs : Start(r) \/ BatchStep(r)

Spec == Init /\ [][Next]_vars


(***************************************************************************)
(* do, and the drivers that call it for every active source                *)
(* (aggregator.py __main__, service.daily_task): inputs and state.         *)
(***************************************************************************)
\* The most rows of the sources table, and the failures the environment
\* causes in one run of a driver.
MaxSources == 2

MaxFaults == 1

\* The sequences over S of length n at most.
SeqsUpTo(S, n) == UNION {[1..k -> S] : k \in 0..n}

SourceName(id) == IF id = 1 THEN <<Run("H", 1), Run("SP", 1), Run("N", 1)>>
                  ELSE <<Run("Q", id)>>

\* The tables: row i has id i, and is active or not.
SourceTables ==
    UNION {{[i \in 1..n |-> [id |-> i, name |-> SourceName(i), actived |-> flags[i]]] :
              flags \in [1..n -> BOOLEAN]} : n \in 0..MaxSources}

\* SELECT * FROM sources WHERE actived = 1
get_active_sources(table) == SelectSeq(table, LAMBDA row : row.actived)

\* get_source_info(id): the row, or None.
get_source_info(table, id) ==
    IF \E i \in 1..Len(table) : table[i].id = id
    THEN Some(table[CHOOSE i \in 1..Len(table) : table[i].id = id])
    ELSE None

ItemA == [url |-> "http://x/1", title |-> TitleT, published_date |-> DateUtcZ]

ItemH == [url |-> "http://x/2", title |-> TitleAB, published_date |-> DateUtcZ,
          comments_url |-> HnCommentsUrl]

ItemD == [url |-> "http://x/2", title |-> TitleT, published_date |-> DateNumber]

\* An item without title and date.
ItemU == [url |-> "http://x/1"]

\* Two items whose titles differ in the number of spaces only.
ItemS == [url |-> "http://x/1", title |-> <<Run("A", 1), Run("SP", 1), Run("B", 1)>>,
          published_date |-> DateUtcZ]

ItemW == [url |-> "http://x/2", title |-> <<Run("A", 1), Run("SP", 2), Run("B", 1)>>,
          published_date |-> DateUtcZ]

DoItems == {ItemA, ItemH, ItemD}

\* What running the crawler command gives: a non-zero exit
\* (CalledProcessError), another error of subprocess.run, or the standard
\* output: blank, no JSON, or a JSON value.
CrawlFailures == {[t |-> "exit_nonzero", items |-> <<>>], [t |-> "oserror", items |-> <<>>]}

Stdouts(lists) ==
    {[t |-> "blank", items |-> <<>>], [t |-> "invalid", items |-> <<>>],
     [t |-> "object", items |-> <<>>]}
        \cup {[t |-> "list", items |-> l] : l \in lists}

\* One source: every outcome of the crawler; the lists of one item, a new
\* item before one with comments or one that ends the batch, a URL twice
\* before a new one, an item that lacks its keys, and two titles that differ
\* in their spaces.
CrawlResults ==
    CrawlFailures
        \cup Stdouts(SeqsUpTo(DoItems, 1)
                       \cup {<<ItemA, ItemH>>, <<ItemA, ItemD>>,
                             <<ItemA, ItemA, ItemH>>, <<ItemU, ItemA>>,
                             <<ItemS, ItemW>>})

\* Several sources, one after the other: lists of one item.
CrawlResultsShort == CrawlFailures \cup Stdouts(SeqsUpTo(DoItems, 1))

\* The answers of the network and the summarizer in a run of a driver.
DoWorld(crawls) ==
    [crawls |-> crawls,
     texts |-> {MessyText, BlankText},
     types |-> {"text/plain", "application/octet-stream"},
     summaries |-> {<<"a", "zh">>, <<>>}]

\* not articles, for the parsed standard output.
JsonFalsy(out) == out.t = "list" /\ out.items = <<>>

\* The locals of do.
NoDo ==
    [source_id |-> 0, limit |-> None, source_info |-> None, crawled |-> None,
     articles |-> <<>>, i |-> 0, success_count |-> 0, attempts |-> <<>>,
     pending |-> None, report |-> <<>>, error |-> "none", ret |-> None]

\* The locals of a driver.
NoDriver ==
    [kind |-> "main", table |-> <<>>, limit |-> None, sources |-> <<>>, k |-> 0,
     success_count |-> 0, invoked |-> <<>>, results |-> <<>>, exit |-> None]

DriverRun(kind, table, limit, world) ==
    [f \in DOMAIN InitRun \cup {"budget", "world", "drv", "frame"} |->
        CASE f = "pc" -> "main"
          [] f = "budget" -> MaxFaults
          [] f = "world" -> world
          [] f = "drv" -> [NoDriver EXCEPT !.kind = kind, !.table = table,
                                           !.limit = limit]
          [] f = "frame" -> NoDo
          [] OTHER -> InitRun[f]]

\* The state of the batch forgotten: its locals die with the call.
ResetBatch(rs) ==
    [f \in DOMAIN rs |-> IF f \in DOMAIN InitRun /\ f # "pc" THEN InitRun[f] ELSE rs[f]]

\* A table of one active source at most is run against every outcome of the
\* crawler, a longer one against the short lists. The aggregator is started
\* with or without -n; the service passes no limit.
InitDo ==
    /\ \E table \in SourceTables, kind \in {"main", "daily_task"},
          limit \in {None, Some(1)} :
          /\ kind = "daily_task" => limit = None
          /\ run = [r \in Runs |->
                      DriverRun(kind, table, limit,
                                DoWorld(IF Len(get_active_sources(table)) <= 1
                                        THEN CrawlResults ELSE CrawlResultsShort))]
    /\ store = {}
    /\ files = <<>>
    /\ clock = 1793600000

(***************************************************************************)
(* The drivers: the list of active sources, one call of do for each.       *)
(***************************************************************************)
\* sources = get_active_sources(); none: the aggregator exits with 1, the
\* daily task returns.
DriverStart(r) ==
    LET rs == run[r]
        sources == get_active_sources(rs.drv.table)
    IN
    /\ rs.pc = "main"
    /\ IF sources = <<>>
       THEN Upd(r, [rs EXCEPT !.pc = "exited",
                              !.drv.exit = IF rs.drv.kind = "main" THEN Some(1) ELSE None])
       ELSE Upd(r, [rs EXCEPT !.pc = "drv_loop", !.drv.sources = sources, !.drv.k = 1])
    /\ UNCHANGED <<store, files, clock>>

\* for source in sources: do(source['id'], ...)
DriverCall(r) ==
    LET rs == run[r] IN
    /\ rs.pc = "drv_loop"
    /\ rs.drv.k <= Len(rs.drv.sources)
    /\ Upd(r, [rs EXCEPT !.pc = "do",
                         !.drv.invoked = Append(@, rs.drv.sources[rs.drv.k].id),
                         !.frame = [NoDo EXCEPT !.source_id = rs.drv.sources[rs.drv.k].id,
                                                !.limit = rs.drv.limit]])
    /\ UNCHANGED <<store, files, clock>>

\* The loop over the sources left after a call that returned false.
NextSourceUnlessFailed(k, n, success) == IF success THEN k + 1 ELSE n + 1

\* for source in sources: the next one, whatever do returned.
NextSource(k, n, success) == k + 1

\* The call returned: the aggregator counts a true result, the daily task
\* logs it; on to the next source.
DriverAfterDo(r) ==
    LET rs == run[r]
        success == Value(rs.frame.ret)
    IN
    /\ rs.pc = "do_returned"
    /\ Upd(r, [ResetBatch(rs) EXCEPT
                 !.pc = "drv_loop",
                 !.drv.results = Append(@, success),
                 !.drv.success_count = IF success /\ rs.drv.kind = "main" THEN @ + 1 ELSE @,
                 !.drv.k = NextSource(@, Len(rs.drv.sources), success),
                 !.frame = NoDo])
    /\ UNCHANGED <<store, files, clock>>

\* sys.exit(0 if success_count == len(sources) else 1); the daily task
\* returns.
DriverExit(r) ==
    LET rs == run[r] IN
    /\ rs.pc = "drv_loop"
    /\ rs.drv.k > Len(rs.drv.sources)
    /\ Upd(r, [rs EXCEPT
                 !.pc = "exited",
                 !.drv.exit = IF rs.drv.kind = "main"
                              THEN Some(IF rs.drv.success_count = Len(rs.drv.sources)
                                        THEN 0 ELSE 1)
                              ELSE None])
    /\ UNCHANGED <<store, files, clock>>

(***************************************************************************)
(* do: the source, the crawler, the batch, the insertions, the report.     *)
(***************************************************************************)
\* return value, out of any point of do.
DoReturn(rs, value) == [rs EXCEPT !.pc = "do_returned", !.frame.ret = Some(value)]

\* except Exception around the whole of do: log, return False.
DoFails(rs, stage) == DoReturn([rs EXCEPT !.frame.error = stage], FALSE)

\* source_info = get_source_info(source_id); if not source_info: return False
DoGetSource(r) ==
    LET rs == run[r]
        info == get_source_info(rs.drv.table, rs.frame.source_id)
    IN
    /\ rs.pc = "do"
    /\ IF info = None
       THEN Upd(r, DoReturn(rs, FALSE))
       ELSE Upd(r, [rs EXCEPT !.pc = "crawl", !.frame.source_info = info])
    /\ UNCHANGED <<store, files, clock>>

\* get_source_info raises (the database is locked or unreadable).
DoGetSourceRaises(r) ==
    LET rs == run[r] IN
    /\ rs.pc = "do"
    /\ CanFail(rs)
    /\ Upd(r, Spend(DoFails(rs, "source_lookup")))
    /\ UNCHANGED <<store, files, clock>>

\* subprocess.run(..., check=True) and the checks of its standard output;
\* an accepted output goes to process_crawler_output.
AfterCrawl(rs, res) ==
    LET got == [rs EXCEPT !.frame.crawled = Some(res)]
        info == Value(rs.frame.source_info)
    IN CASE res.t = "exit_nonzero" -> DoReturn(got, FALSE)
         [] res.t = "oserror" -> DoFails(got, "adapter")
         [] res.t = "blank" -> DoReturn(got, FALSE)
         [] res.t = "invalid" -> DoReturn(got, FALSE)
         [] OTHER ->
              IF JsonFalsy(res)
              THEN DoReturn(got, FALSE)
              ELSE EnterBatch(got, [t |-> res.t, items |-> res.items], rs.frame.limit,
                              [id |-> info.id, name |-> info.name])

DoCrawl(r) ==
    LET rs == run[r] IN
    /\ rs.pc = "crawl"
    /\ \E res \in rs.world.crawls : Upd(r, AfterCrawl(rs, res))
    /\ UNCHANGED <<store, files, clock>>

\* The report step taken before any insertion.
AfterBatchNoInsert(rs) ==
    IF rs.ret = <<>>
    THEN DoReturn(rs, TRUE)
    ELSE [rs EXCEPT !.pc = "report", !.frame.articles = rs.ret]

\* articles = process_crawler_output(...); if not articles: return True
AfterBatch(rs) ==
    IF rs.ret = <<>>
    THEN DoReturn(rs, TRUE)
    ELSE [rs EXCEPT !.pc = "insert", !.frame.articles = rs.ret, !.frame.i = 1,
                    !.frame.success_count = 0]

DoAfterBatch(r) ==
    LET rs == run[r] IN
    /\ rs.pc = "returned"
    /\ Upd(r, AfterBatch(rs))
    /\ UNCHANGED <<store, files, clock>>

\* id INTEGER PRIMARY KEY AUTOINCREMENT
NextId(rows) ==
    IF rows = {} THEN 1 ELSE (CHOOSE n \in {a.id : a \in rows} : \A a \in rows : a.id <= n) + 1

\* The row of the INSERT.
ArticleRow(rows, article) ==
    [id |-> NextId(rows), url |-> article.url, title |-> article.title,
     source |-> article.source_id, abstract_file |-> article.abstract_file,
     publish_timestamp |-> article.publish_timestamp,
     audio_file |-> article.audio_file]

\* Another connection is inside its INSERT ... commit: the database is locked
\* for writing.
WriteLocked(r) == \E o \in DOMAIN run : o # r /\ run[o].pc = "commit"

\* The insertion went on after the sentinel, article_id of the rest unset.
AfterIntegrityErrorStop(rs) ==
    DoReturn([rs EXCEPT !.frame.attempts = Append(@, -1)], TRUE)

\* except sqlite3.IntegrityError: return -1; the else branch of do's loop.
AfterIntegrityError(rs) ==
    [rs EXCEPT !.frame.attempts = Append(@, -1), !.frame.i = @ + 1]

\* The INSERT without the UNIQUE constraint on url.
ViolatesUniqueNever(rows, url) == FALSE

\* url TEXT UNIQUE
ViolatesUnique(rows, url) == \E a \in rows : a.url = url

\* cursor.execute(INSERT ...): the row held until the commit, or the
\* IntegrityError of a URL already there.
AddArticleExecute(r) ==
    LET rs == run[r]
        article == rs.frame.articles[rs.frame.i]
    IN
    /\ rs.pc = "insert"
    /\ rs.frame.i <= Len(rs.frame.articles)
    /\ ~WriteLocked(r)
    /\ IF ViolatesUnique(store, article.url)
       THEN Upd(r, AfterIntegrityError(rs))
       ELSE Upd(r, [rs EXCEPT !.pc = "commit",
                              !.frame.pending = Some(ArticleRow(store, article))])
    /\ UNCHANGED <<store, files, clock>>

\* article_id = cursor.lastrowid; conn.commit(); return article_id; and
\* success_count += 1 in do.
AddArticleCommit(r) ==
    LET rs == run[r]
        row == Value(rs.frame.pending)
    IN
    /\ rs.pc = "commit"
    /\ store' = store \cup {row}
    /\ Upd(r, [rs EXCEPT !.pc = "insert",
                         !.frame.pending = None,
                         !.frame.attempts = Append(@, row.id),
                         !.frame.success_count = @ + 1,
                         !.frame.i = @ + 1])
    /\ UNCHANGED <<files, clock>>

\* add_article raises another error than IntegrityError (the database stays
\* locked, the disk is full): the connection is closed, the row is gone, and
\* the error leaves do.
AddArticleRaises(r) ==
    LET rs == run[r] IN
    /\ \/ rs.pc = "insert" /\ rs.frame.i <= Len(rs.frame.articles)
       \/ rs.pc = "commit"
    /\ CanFail(rs)
    /\ Upd(r, Spend(DoFails([rs EXCEPT !.frame.pending = None,
                                       !.frame.attempts = Append(@, 0)],
                            "insert")))
    /\ UNCHANGED <<store, files, clock>>

\* The end of the insertion loop.
InsertDone(r) ==
    LET rs == run[r] IN
    /\ rs.pc = "insert"
    /\ rs.frame.i > Len(rs.frame.articles)
    /\ Upd(r, [rs EXCEPT !.pc = "report"])
    /\ UNCHANGED <<store, files, clock>>

ReportOutcomes == {"raises", "none", "report"}

PublishOutcomes == {"raises", "failed", "published"}

\* The error of the report step leaving do.
AfterReportStepFalse(rs, step, outcome) ==
    LET logged == [rs EXCEPT !.frame.report =
                       Append(@, [step |-> step, outcome |-> outcome,
                                  articles |-> rs.frame.articles])]
    IN IF outcome = "raises" THEN DoFails(logged, "report")
       ELSE IF outcome = "report" THEN [logged EXCEPT !.pc = "publish"]
       ELSE DoReturn(logged, TRUE)

\* try: generate_report, publish_report; except Exception: log. return True
AfterReportStep(rs, step, outcome) ==
    LET logged == [rs EXCEPT !.frame.report =
                       Append(@, [step |-> step, outcome |-> outcome,
                                  articles |-> rs.frame.articles])]
    IN IF outcome = "report" THEN [logged EXCEPT !.pc = "publish"]
       ELSE DoReturn(logged, TRUE)

\* result = generate_report(articles, source_info['id'])
GenerateReport(r) ==
    LET rs == run[r] IN
    /\ rs.pc = "report"
    /\ \E outcome \in ReportOutcomes : Upd(r, AfterReportStep(rs, "generate", outcome))
    /\ UNCHANGED <<store, files, clock>>

\* publish_success = publish_report(report_file, ...)
PublishReport(r) ==
    LET rs == run[r] IN
    /\ rs.pc = "publish"
    /\ \E outcome \in PublishOutcomes : Upd(r, AfterReportStep(rs, "publish", outcome))
    /\ UNCHANGED <<store, files, clock>>

\* One step of do outside the batch.
DoStep(r) ==
    \/ DoGetSource(r)
    \/ DoGetSourceRaises(r)
    \/ DoCrawl(r)
    \/ DoAfterBatch(r)
    \/ AddArticleExecute(r)
    \/ AddArticleCommit(r)
    \/ AddArticleRaises(r)
    \/ InsertDone(r)
    \/ GenerateReport(r)
    \/ PublishReport(r)

DriverStep(r) ==
    \/ DriverStart(r)
    \/ DriverCall(r)
    \/ DriverAfterDo(r)
    \/ DriverExit(r)

NextDo == \E r \in Runs : DriverStep(r) \/ DoStep(r) \/ BatchStep(r)

SpecDo == InitDo /\ [][NextDo]_vars

(***************************************************************************)
(* add_article on its own: connections inserting into one database at the  *)
(* same time, each from the insertion loop of a run of do.                 *)
(***************************************************************************)
\* The most runs inserting at the same time.
MaxWriters == 2

Writers == 1..MaxWriters

\* The article a writer made of a URL: writers differ in the title.
WrittenArticle(w, u) ==
    [url |-> u, title |-> <<Run("T", w)>>, source_id |-> w,
     abstract_file |-> Some(StoredPath(u)), audio_file |-> None,
     publish_timestamp |-> 1704067200]

\* The batches of a writer: one URL, two URLs in either order, one URL twice.
WriterBatches(w) ==
    {[k \in DOMAIN us |-> WrittenArticle(w, us[k])] :
        us \in {<<"http://x/1">>, <<"http://x/1", "http://x/2">>,
                <<"http://x/2", "http://x/1">>, <<"http://x/1", "http://x/1">>}}

\* A run of do at the head of its insertion loop.
InsertingRun(articles) ==
    [DriverRun("main", <<>>, None, DoWorld({})) EXCEPT
        !.pc = "insert",
        !.frame = [NoDo EXCEPT !.articles = articles, !.i = 1]]

InitStore ==
    /\ \E batches \in [Writers -> UNION {WriterBatches(w) : w \in Writers}] :
          /\ \A w \in Writers : batches[w] \in WriterBatches(w)
          /\ run = [w \in Writers |-> InsertingRun(batches[w])]
    /\ \E S \in SUBSET {"http://x/2"} : store = {StoredArticle(u) : u \in S}
    /\ files = <<>>
    /\ clock = 1793600000

NextStore ==
    \E w \in Writers :
        \/ AddArticleExecute(w)
        \/ AddArticleCommit(w)
        \/ AddArticleRaises(w)
        \/ InsertDone(w)

SpecStore == InitStore /\ [][NextStore]_vars

(***************************************************************************)
(* Two runs of the aggregator for one source at the same time: the cron    *)
(* job and a run started by hand. Network, summarizer and disk answer, the *)
(* crawler gives both the same list.                                       *)
(***************************************************************************)
Concurrent == {"d1", "d2"}

OneSourceTable == <<[id |-> 1, name |-> SourceName(1), actived |-> TRUE]>>

PairWorld ==
    [crawls |-> {[t |-> "list", items |-> <<ItemA, ItemW>>]},
     texts |-> {MessyText},
     types |-> {"text/plain"},
     summaries |-> {<<"a", "zh">>}]

InitPair ==
    /\ run = [d \in Concurrent |->
                [DriverRun("main", OneSourceTable, None, PairWorld) EXCEPT !.budget = 0]]
    /\ store = {}
    /\ files = <<>>
    /\ clock = 1793600000

NextPair ==
    \E d \in Concurrent :
        \/ DriverStart(d)
        \/ DriverCall(d)
        \/ DoGetSource(d)
        \/ DoCrawl(d)
        \/ Lookup(d)
        \/ AttemptResponds(d)
        \/ AfterDownload(d)
        \/ Summarize(d)
        \/ Save(d)
        \/ AfterSave(d)
        \/ Return(d)
        \/ DoAfterBatch(d)
        \/ AddArticleExecute(d)
        \/ AddArticleCommit(d)
        \/ InsertDone(d)
        \/ GenerateReport(d)
        \/ PublishReport(d)
        \/ DriverAfterDo(d)
        \/ DriverExit(d)

SpecPair == InitPair /\ [][NextPair]_vars

(***************************************************************************)
(* extract_comments on its own: the flattening applied to one tree.        *)
(***************************************************************************)
\* The widest list of children of the root; a child of the root has one
\* child at most.
MaxChildren == 2

\* The shapes of a node: a text with an author, a text without an author
\* key, no text key.
NodeShapes ==
    { [text |-> CommentA, author |-> AuthorU],
      [text |-> CommentB],
      [author |-> AuthorU] }

WithChildren(shape, children) ==
    [k \in DOMAIN shape \cup {"children"} |->
        IF k = "children" THEN children ELSE shape[k]]

ChildTrees ==
    NodeShapes
        \cup {WithChildren(s, c) : s \in NodeShapes, c \in SeqsUpTo(NodeShapes, 1)}

\* The trees handed to extract_comments: every shape of a root over up to
\* MaxChildren subtrees, and the trees of the responses.
CommentTrees ==
    {WithChildren(s, c) : s \in NodeShapes, c \in SeqsUpTo(ChildTrees, MaxChildren)}
        \cup {ExampleTree, LinkStoryTree, EmptyTree}

InitFlatten ==
    /\ \E data \in CommentTrees :
          run = [r \in Runs |-> [pc |-> "flatten", data |-> data, lines |-> <<>>]]
    /\ store = {}
    /\ files = <<>>
    /\ clock = 0

\* all_comments = extract_comments(data)
Flatten(r) ==
    /\ run[r].pc = "flatten"
    /\ Upd(r, [run[r] EXCEPT !.pc = "flattened",
                             !.lines = extract_comments(run[r].data, 0)])
    /\ UNCHANGED <<store, files, clock>>

NextFlatten == \E r \in Runs : Flatten(r)

SpecFlatten == InitFlatten /\ [][NextFlatten]_vars

(***************************************************************************)
(* sanitize_filename on its own: two calls with one title.                 *)
(***************************************************************************)
\* The most runs of one character in a generated title.
MaxRuns == 2

TitleChars == {"A", "/", "SP", "TAB", "_", "."}

RunLengths == {1, 3, 97, 98, 100, 101}

\* The title of the spec's example: "A/B", five spaces, 120 times "C".
ExampleTitle ==
    <<Run("A", 1), Run("/", 1), Run("B", 1), Run("SP", 5), Run("C", 120)>>

\* Titles as run-length texts: no two neighbouring runs of one character.
SanitizeTitles ==
    {t \in SeqsUpTo({Run(c, n) : c \in TitleChars, n \in RunLengths}, MaxRuns) :
        \A i \in 1..(Len(t) - 1) : t[i].c # t[i + 1].c}
        \cup {ExampleTitle, TitleT, TitleAB}

InitSanitize ==
    /\ \E title \in SanitizeTitles :
          run = [r \in Runs |-> [pc |-> "sanitize", title |-> title, calls |-> <<>>]]
    /\ store = {}
    /\ files = <<>>
    /\ clock = 0

\* safe_title = sanitize_filename(title), called a first and a second time.
Sanitize(r) ==
    /\ run[r].pc = "sanitize"
    /\ Upd(r, [run[r] EXCEPT
                 !.calls = Append(@, sanitize_filename(run[r].title)),
                 !.pc = IF Len(run[r].calls) = 1 THEN "sanitized" ELSE "sanitize"])
    /\ UNCHANGED <<store, files, clock>>

NextSanitize == \E r \in Runs : Sanitize(r)

SpecSanitize == InitSanitize /\ [][NextSanitize]_vars

(***************************************************************************)
(* The path of save_abstract_with_audio on its own.                        *)
(***************************************************************************)
InitPath ==
    /\ \E source_name \in SanitizeTitles, title \in {TitleAB, ExampleTitle},
          timestamp \in {1704067200, 1793600000} :
          run = [r \in Runs |-> [pc |-> "path", source_name |-> source_name,
                                 title |-> title, timestamp |-> timestamp,
                                 path |-> None]]
    /\ store = {}
    /\ files = <<>>
    /\ clock = 0

\* abstract_file_path = Path('abstraction') / safe_source_name / date_str / name
BuildPath(r) ==
    /\ run[r].pc = "path"
    /\ Upd(r, [run[r] EXCEPT
                 !.pc = "built",
                 !.path = Some(AbstractPath(run[r].source_name, run[r].timestamp,
                                            run[r].title))])
    /\ UNCHANGED <<store, files, clock>>

NextPath == \E r \in Runs : BuildPath(r)

SpecPath == InitPath /\ [][NextPath]_vars

(***************************************************************************)
(* Properties.                                                             *)
(***************************************************************************)
GetsOf(log) == SelectSeq(log, LAMBDA e : e.e = "GET")

AllRaised(log) == \A i \in 1..Len(log) : log[i].e = "GET" => log[i].res = "raised"

\* Empty, or nothing but whitespace.
AllWhitespace(t) == \A i \in 1..Len(t) : t[i].c \in {"SP", "TAB", "NL", "CR"}

\* p is the first TextLen(p) characters of t.
IsPrefixText(p, t) ==
    \/ p = <<>>
    \/ /\ Len(p) <= Len(t)
       /\ \A j \in 1..(Len(p) - 1) : p[j] = t[j]
       /\ p[Len(p)].c = t[Len(p)].c
       /\ p[Len(p)].n <= t[Len(p)].n

OkItems(rs) == {i \in DOMAIN rs.outcome : rs.outcome[i] = "ok"}

\* list holds the articles made of the candidates at increasing positions,
\* each made by a successful pass of the loop.
IsSubsequenceOfCandidates(rs, list) ==
    \E f \in [1..Len(list) -> 1..Len(rs.articles)] :
        /\ \A j, k \in 1..Len(list) : j < k => f[j] < f[k]
        /\ \A k \in 1..Len(list) :
              /\ rs.outcome[f[k]] = "ok"
              /\ "url" \in DOMAIN rs.articles[f[k]]
              /\ "title" \in DOMAIN rs.articles[f[k]]
              /\ list[k].url = rs.articles[f[k]].url
              /\ list[k].title = rs.articles[f[k]].title

LacksRequiredKey(article) ==
    \E k \in {"url", "title", "published_date"} : k \notin DOMAIN article

StoredUrls == {a.url : a \in store}

AllUrlsStored(articles) ==
    \A i \in 1..Len(articles) :
        "url" \in DOMAIN articles[i] => articles[i].url \in StoredUrls

\* C1: when the batch has returned, every item whose own processing
\* succeeded is in the returned list, whatever happened to the other items.
C1_FailureNeverAbortsBatch ==
    \A r \in Runs :
        LET rs == run[r] IN
        rs.pc = "returned" =>
            \A i \in OkItems(rs) :
                \E k \in 1..Len(rs.ret) :
                    /\ rs.ret[k].url = rs.articles[i].url
                    /\ rs.ret[k].title = rs.articles[i].title

\* C2: if every URL of the candidate list has a record in the store, the
\* batch downloads, summarizes and writes nothing and returns the empty list.
C2_RerunIdempotent ==
    \A r \in Runs :
        LET rs == run[r] IN
        (rs.pc # "start" /\ AllUrlsStored(rs.articles)) =>
            /\ \A i \in 1..Len(rs.articles) :
                  /\ rs.eff[i].downloads = 0
                  /\ rs.eff[i].comment_downloads = 0
                  /\ rs.eff[i].summaries = 0
                  /\ rs.eff[i].writes = 0
            /\ rs.pc \in {"loop", "returned"}
            /\ rs.processed_articles = <<>>
            /\ rs.pc = "returned" => rs.ret = <<>>

C2_Witness ==
    \E r \in Runs :
        LET rs == run[r] IN
        /\ rs.pc = "returned"
        /\ ~rs.crashed
        /\ Len(rs.articles) = 2
        /\ \A i \in 1..2 : ~LacksRequiredKey(rs.articles[i])
        /\ rs.articles[1].url # rs.articles[2].url
        /\ AllUrlsStored(rs.articles)
        /\ \A i \in 1..2 : rs.eff[i].lookups = 1
        /\ rs.ret = <<>>

\* C3: an item without url, title or published_date is skipped: no store
\* lookup, no download, no summary and no write happens for it, and no
\* returned article is made of it.
C3_InvalidItemSkipped ==
    \A r \in Runs :
        LET rs == run[r] IN
        \A i \in 1..Len(rs.articles) :
            LacksRequiredKey(rs.articles[i]) =>
                /\ rs.eff[i] = NoEffects
                /\ rs.outcome[i] \in {"none", "invalid"}
                /\ (rs.idx > i => rs.outcome[i] = "invalid")
                /\ Len(rs.processed_articles) = Cardinality(OkItems(rs))
                /\ (rs.idx = i => rs.pc \in {"loop", "returned"})

C3_Witness ==
    \E r \in Runs :
        LET rs == run[r] IN
        /\ rs.pc = "returned"
        /\ Len(rs.articles) = 2
        /\ "published_date" \notin DOMAIN rs.articles[1]
        /\ rs.outcome[1] = "invalid"
        /\ rs.outcome[2] = "ok"
        /\ Len(rs.ret) = 1

\* C4: a download whose every request raises makes exactly 3 requests, each
\* retry at least 3 seconds after a sleep of at least 3 seconds, and then
\* returns None; no download makes a fourth request.
C4_ThreeAttemptsThenFailure ==
    \A r \in Runs :
        LET rs == run[r]
            log == rs.loc.dlog
            n == Len(GetsOf(log))
        IN
        /\ n <= 3
        /\ (rs.pc \in {"download", "fetched"} /\ AllRaised(log)) =>
              /\ rs.pc = "fetched" => (n = 3 /\ rs.loc.dl_result = None)
              /\ rs.pc = "download" => n < 3
        /\ \A i \in 2..Len(log) :
              log[i].e = "GET" =>
                  /\ log[i - 1].e = "SLEEP"
                  /\ log[i - 1].d >= 3
                  /\ log[i].at >= log[i - 1].at + 3

C4_Witness ==
    \E r \in Runs :
        LET rs == run[r] IN
        /\ rs.pc = "fetched"
        /\ Len(GetsOf(rs.loc.dlog)) = 3
        /\ AllRaised(rs.loc.dlog)
        /\ rs.loc.dl_result = None

\* C5 as claimed: every download that returns a failure has made 3 requests.
C5_EveryFailureRetried ==
    \A r \in Runs :
        LET rs == run[r] IN
        (rs.pc = "fetched" /\ rs.loc.dl_result = None) =>
            Len(GetsOf(rs.loc.dlog)) = 3

\* C5 as amended: only a request that raises is followed by another one, and
\* a failure after a raise is returned only after 3 requests; an empty text
\* or an undecodable body returns the failure at once.
C5_OnlyRaisesRetried ==
    \A r \in Runs :
        LET rs == run[r]
            gets == GetsOf(rs.loc.dlog)
            n == Len(gets)
        IN
        /\ \A i \in 1..(n - 1) : gets[i].res = "raised"
        /\ rs.pc = "download" => \A i \in 1..n : gets[i].res = "raised"
        /\ (rs.pc = "fetched" /\ rs.loc.dl_result = None) =>
              /\ n >= 1
              /\ gets[n].res \in {"raised", "empty", "undecodable"}
              /\ gets[n].res = "raised" => n = 3

C5_Witness ==
    \E r \in Runs :
        LET rs == run[r]
            gets == GetsOf(rs.loc.dlog)
        IN
        /\ rs.pc = "fetched"
        /\ rs.loc.dl_result = None
        /\ Len(gets) = 2
        /\ gets[1].res = "raised"
        /\ gets[2].res = "empty"

\* C6: a download never returns an empty or whitespace-only text: such a
\* text makes it return None, and an item whose download returned None is
\* skipped without a call of the summarizer.
C6_NoEmptySuccess ==
    \A r \in Runs :
        LET rs == run[r] IN
        /\ (rs.pc = "fetched" /\ rs.loc.dl_result # None) =>
              ~AllWhitespace(Value(rs.loc.dl_result))
        /\ (rs.pc = "fetched" /\ AllWhitespace(rs.loc.dl_clean)) =>
              rs.loc.dl_result = None
        /\ rs.pc = "summarize" => ~AllWhitespace(rs.loc.text)
        /\ \A i \in 1..Len(rs.articles) :
              rs.outcome[i] = "nofetch" => rs.eff[i].summaries = 0

C6_Witness ==
    \E r \in Runs :
        LET rs == run[r] IN
        /\ rs.pc = "loop"
        /\ rs.idx = 2
        /\ rs.outcome[1] = "nofetch"
        /\ rs.eff[1].downloads = 1
        /\ rs.eff[1].summaries = 0
        /\ clock = 1793600000

\* C7: a returned text has at most 120,000 characters; it is the first
\* 120,000 characters of the cleaned text when that is longer and the
\* cleaned text itself otherwise; the text handed to the summarizer has at
\* most 120,000 characters.
C7_LengthCap ==
    \A r \in Runs :
        LET rs == run[r] IN
        /\ (rs.pc = "fetched" /\ rs.loc.dl_result # None) =>
              LET text == Value(rs.loc.dl_result)
                  clean == rs.loc.dl_clean
              IN /\ TextLen(text) <= 120000
                 /\ TextLen(clean) > 120000 =>
                       (TextLen(text) = 120000 /\ IsPrefixText(text, clean))
                 /\ TextLen(clean) <= 120000 => text = clean
        /\ rs.pc = "summarize" => TextLen(rs.loc.text) <= 120000

C7_Witness ==
    \E r \in Runs :
        LET rs == run[r] IN
        /\ rs.pc = "fetched"
        /\ rs.loc.dl_result # None
        /\ TextLen(rs.loc.dl_clean) = 130000
        /\ TextLen(Value(rs.loc.dl_result)) = 120000

\* C8: when save_abstract_with_audio returns a path, the file of that path
\* exists and is not empty; a file missing or empty after the write makes it
\* return no path, and the item is skipped.
C8_ReturnedFileNotEmpty ==
    \A r \in Runs :
        LET rs == run[r] IN
        /\ (rs.pc = "saved" /\ rs.loc.abstract_file # None) =>
              /\ Value(rs.loc.abstract_file) \in DOMAIN files
              /\ files[Value(rs.loc.abstract_file)] > 0
        /\ \A i \in 1..Len(rs.articles) :
              rs.outcome[i] = "nowrite" => rs.eff[i].writes = 1
        /\ Len(rs.processed_articles) = Cardinality(OkItems(rs))

C8_Witness ==
    \E r \in Runs :
        LET rs == run[r] IN
        /\ rs.pc = "saved"
        /\ rs.loc.abstract_file # None
        /\ files[Value(rs.loc.abstract_file)] = 4

\* C9: an item that passed summarization with a published_date that cannot
\* be parsed goes on to the write with the current time as its timestamp;
\* it is not ended by an error.
C9_UnparsableDateFallsBack ==
    \A r \in Runs :
        LET rs == run[r] IN
        \A i \in 1..Len(rs.articles) :
            (/\ ~LacksRequiredKey(rs.articles[i])
             /\ rs.articles[i].published_date \in {DateMalformed, DateNumber}
             /\ rs.eff[i].summaries = 1
             /\ rs.outcome[i] # "nosummary") =>
                /\ rs.outcome[i] # "crash"
                /\ (rs.idx = i /\ rs.pc = "save") => rs.loc.timestamp = clock

\* C10: the list built, and the list returned, is made of candidates at
\* increasing positions, one article per successful item.
C10_ResultIsSubsequence ==
    \A r \in Runs :
        LET rs == run[r] IN
        /\ rs.pc # "start" => IsSubsequenceOfCandidates(rs, rs.processed_articles)
        /\ rs.pc = "returned" => IsSubsequenceOfCandidates(rs, rs.ret)
        /\ (rs.pc = "returned" /\ ~rs.crashed) =>
              Len(rs.ret) = Cardinality(OkItems(rs))

C10_Witness ==
    \E r \in Runs :
        LET rs == run[r] IN
        /\ rs.pc = "returned"
        /\ Len(rs.ret) = 2
        /\ rs.ret[1].title # rs.ret[2].title

\* C11: with a limit n the batch works on the first n items of the crawler's
\* list only: the items it walks are that prefix, effects exist for those
\* positions alone, and the list built and returned has at most n entries.
C11_LimitTakesPrefix ==
    \A r \in Runs :
        LET rs == run[r] IN
        (rs.pc # "start" /\ rs.limit # None /\ rs.output.t = "list") =>
            LET n == rs.limit[1]
                items == rs.output.items
            IN /\ Len(rs.articles) <= n
               /\ Len(rs.articles) <= Len(items)
               /\ (Len(items) >= n => Len(rs.articles) = n)
               /\ \A i \in 1..Len(rs.articles) : rs.articles[i] = items[i]
               /\ DOMAIN rs.eff = 1..Len(rs.articles)
               /\ rs.idx <= Len(rs.articles) + 1
               /\ Len(rs.processed_articles) <= n
               /\ Len(rs.ret) <= n

C11_Witness ==
    \E r \in Runs :
        LET rs == run[r] IN
        /\ rs.pc = "returned"
        /\ rs.limit = Some(1)
        /\ Len(rs.output.items) = 2
        /\ ~LacksRequiredKey(rs.output.items[2])
        /\ rs.output.items[2].url \notin StoredUrls
        /\ Len(rs.articles) = 1
        /\ Len(rs.ret) = 1

\* The run is fetching the comments of its current item.
CommentStage(rs) ==
    \/ rs.pc \in {"hn_comments", "hn_fetched"}
    \/ rs.pc \in {"download", "fetched"} /\ rs.loc.target = "comments"

\* C12: from the fetch of an item's comments the run goes nowhere but to the
\* call of the summarizer for the same item, with the article text it had;
\* the item is not skipped and the batch not ended, and a fetch that returned
\* nothing leaves the comments text empty.
C12_CommentsNeverFailItem ==
    [][\A r \in Runs :
          LET a == run[r]
              b == run'[r]
          IN CommentStage(a) =>
                /\ HasComments(a.articles[a.idx])
                /\ a.loc.text # <<>>
                /\ b.idx = a.idx
                /\ b.loc.text = a.loc.text
                /\ b.outcome[b.idx] = "none"
                /\ CommentStage(b) \/ b.pc = "summarize"
                /\ b.pc = "summarize" =>
                      /\ a.pc \in {"fetched", "hn_fetched"}
                      /\ a.loc.dl_result = None => b.loc.comments_text = <<>>
                      /\ a.loc.dl_result # None =>
                            b.loc.comments_text = a.loc.dl_result[1]]_vars

C12_Witness ==
    \E r \in Runs :
        LET rs == run[r] IN
        /\ rs.pc = "summarize"
        /\ HasComments(rs.articles[rs.idx])
        /\ HnMatch(rs.articles[rs.idx].comments_url) # None
        /\ rs.eff[rs.idx].comment_downloads = 1
        /\ rs.loc.comments_text = <<>>
        /\ rs.loc.text # <<>>

\* The children of a node, none where the key is missing.
ChildrenOf(node) == IF "children" \in DOMAIN node THEN node.children ELSE <<>>

\* The node a path of child positions leads to.
RECURSIVE NodeAt(_, _)
NodeAt(node, path) ==
    IF path = <<>> THEN node
    ELSE NodeAt(ChildrenOf(node)[Head(path)], Tail(path))

RECURSIVE IsPathOf(_, _)
IsPathOf(node, path) ==
    \/ path = <<>>
    \/ /\ Head(path) \in 1..Len(ChildrenOf(node))
       /\ IsPathOf(ChildrenOf(node)[Head(path)], Tail(path))

Widest == MaxChildren

PathsOf(tree) == {p \in SeqsUpTo(1..Widest, 2) : IsPathOf(tree, p)}

\* p comes before q in pre-order: p is a proper prefix of q, or p turns to
\* an earlier child where the two part.
PathBefore(p, q) ==
    \/ Len(p) < Len(q) /\ \A i \in 1..Len(p) : p[i] = q[i]
    \/ \E i \in 1..Min(Len(p), Len(q)) :
          /\ \A j \in 1..(i - 1) : p[j] = q[j]
          /\ p[i] < q[i]

\* The paths of the nodes with a non-empty text.
TextPathsOf(tree) ==
    {p \in PathsOf(tree) :
        LET node == NodeAt(tree, p)
        IN "text" \in DOMAIN node /\ node.text.t = "str" /\ node.text.v # <<>>}

LeadingSpaces(line) == IF Head(line).c = "SP" THEN Head(line).n ELSE 0

\* C13: the flattening yields one line per node with a non-empty text, the
\* lines in pre-order of their nodes, each indented by two spaces per level
\* of its node; a node without text yields no line and its children are
\* still at one level more.
C13_FlattenPreOrder ==
    \A r \in Runs :
        LET rs == run[r] IN
        rs.pc = "flattened" =>
            LET paths == TextPathsOf(rs.data)
            IN /\ Len(rs.lines) = Cardinality(paths)
               /\ \A p \in paths :
                     LET k == Cardinality({q \in paths : PathBefore(q, p)}) + 1
                     IN /\ LeadingSpaces(rs.lines[k]) = 2 * Len(p)
                        /\ rs.lines[k] = CommentLine(NodeAt(rs.data, p), Len(p))

C13_Witness ==
    \E r \in Runs :
        LET rs == run[r] IN
        /\ rs.pc = "flattened"
        /\ rs.data = ExampleTree
        /\ Len(rs.lines) = 4
        /\ [k \in 1..4 |-> LeadingSpaces(rs.lines[k])] = <<0, 2, 2, 4>>

\* The characters sanitize_filename turns into an underscore, and the
\* underscore.
UnderscoreClass(c) == c \in {"SP", "TAB", "NL", "CR", "_"}

\* The length of a title after the replacements and the collapsing: every
\* other character counts, every maximal stretch of the class counts once.
RECURSIVE CollapsedLen(_, _)
CollapsedLen(t, inStretch) ==
    IF t = <<>> THEN 0
    ELSE IF UnderscoreClass(Head(t).c)
         THEN (IF inStretch THEN 0 ELSE 1) + CollapsedLen(Tail(t), TRUE)
         ELSE Head(t).n + CollapsedLen(Tail(t), FALSE)

EndsWithEllipsis(s) == s # <<>> /\ Last(s).c = "." /\ Last(s).n >= 3

\* No unsafe character, no space, tab or newline, no two underscores in a
\* row, at most 100 characters.
IsSafeName(s) ==
    /\ \A i \in 1..Len(s) :
          /\ s[i].c \notin {"/", "\\", ":", "*", "?", "\"", "<", ">", "|",
                            "SP", "TAB", "NL"}
          /\ s[i].c = "_" => s[i].n = 1
    /\ \A i \in 1..(Len(s) - 1) : ~(s[i].c = "_" /\ s[i + 1].c = "_")
    /\ TextLen(s) <= 100

\* C14 as claimed: the name is safe, the same on every call, and ends with
\* the ellipsis exactly when the replaced and collapsed title had more than
\* 100 characters.
C14_EllipsisIffTruncated ==
    \A r \in Runs :
        LET rs == run[r] IN
        \A k \in 1..Len(rs.calls) :
            /\ IsSafeName(rs.calls[k])
            /\ rs.calls[k] = rs.calls[1]
            /\ EndsWithEllipsis(rs.calls[k]) <=> CollapsedLen(rs.title, FALSE) > 100

\* C14 as amended: the name is safe and the same on every call; a replaced
\* and collapsed title of more than 100 characters yields 100 characters
\* that end with the ellipsis, a shorter one is returned as it is, whether or
\* not it ends with three dots itself.
C14_SafeNameEllipsisWhenTruncated ==
    \A r \in Runs :
        LET rs == run[r]
            n == CollapsedLen(rs.title, FALSE)
        IN
        \A k \in 1..Len(rs.calls) :
            /\ IsSafeName(rs.calls[k])
            /\ rs.calls[k] = rs.calls[1]
            /\ n > 100 => (TextLen(rs.calls[k]) = 100 /\ EndsWithEllipsis(rs.calls[k]))
            /\ n <= 100 => TextLen(rs.calls[k]) = n

C14_Witness ==
    \E r \in Runs :
        LET rs == run[r] IN
        /\ rs.pc = "sanitized"
        /\ rs.title = ExampleTitle
        /\ Len(rs.calls) = 2
        /\ TextLen(rs.calls[2]) = 100
        /\ EndsWithEllipsis(rs.calls[2])


(***************************************************************************)
(* do and the output of the crawler.                                       *)
(***************************************************************************)
\* The crawler delivered a non-empty JSON array: it exited with 0 and its
\* standard output parsed to a list with an item.
DeliveredArray(res) == res.t = "list" /\ res.items # <<>>

\* C15: whenever the crawler does not deliver a non-empty JSON array (a
\* non-zero exit, empty output, invalid JSON, an empty array or a JSON value
\* that is no array), do returns false, having fetched nothing, inserted
\* nothing and generated no report.
C15_NoArrayReturnsFalse ==
    \A r \in Runs :
        LET rs == run[r] IN
        (/\ "frame" \in DOMAIN rs
         /\ rs.pc = "do_returned"
         /\ rs.frame.crawled # None
         /\ ~DeliveredArray(Value(rs.frame.crawled)))
            => /\ Value(rs.frame.ret) = FALSE
               /\ \A i \in DOMAIN rs.eff : rs.eff[i] = NoEffects
               /\ rs.frame.attempts = <<>>
               /\ rs.frame.report = <<>>


(***************************************************************************)
(* do and the errors of its stages.                                        *)
(***************************************************************************)
\* An error was raised and not handled where it arose: in the source
\* lookup, in the run of the crawler, in the insertion (all three leave do
\* through its except Exception), or in the batch over a delivered array
\* (which leaves process_crawler_output through its own).
UnhandledError(rs) ==
    \/ rs.frame.error \in {"source_lookup", "adapter", "insert"}
    \/ /\ rs.crashed
       /\ rs.frame.crawled # None
       /\ DeliveredArray(Value(rs.frame.crawled))

\* C16: an unhandled error at any stage of a source run (source lookup,
\* crawler, the batch, the insertion) makes do return false; no such run is
\* reported as successful.
C16_AnyErrorReturnsFalse ==
    \A r \in Runs :
        LET rs == run[r] IN
        ("frame" \in DOMAIN rs /\ rs.pc = "do_returned" /\ UnhandledError(rs))
            => Value(rs.frame.ret) = FALSE


(***************************************************************************)
(* do after the output of the crawler was accepted.                        *)
(***************************************************************************)
\* do returned after the batch ran over a delivered array, and no error of an
\* earlier stage or of the insertion had left do through its handler.
BatchRan(rs) ==
    /\ "frame" \in DOMAIN rs
    /\ rs.pc = "do_returned"
    /\ rs.frame.crawled # None
    /\ DeliveredArray(Value(rs.frame.crawled))
    /\ rs.frame.error \notin {"source_lookup", "adapter", "insert"}

\* The report step did not come to a published report.
ReportFailed(rs) ==
    /\ rs.frame.report # <<>>
    /\ rs.frame.report[Len(rs.frame.report)].outcome \in {"raises", "none", "failed"}

\* C17: with the crawler's output accepted, do returns true when the batch
\* yields no new article, without attempting an insertion or a report, and
\* returns true when generating or publishing the report fails or raises.
C17_EmptyBatchOrReportFailureReturnsTrue ==
    \A r \in Runs :
        LET rs == run[r] IN
        BatchRan(rs) =>
            /\ rs.ret = <<>> =>
                  /\ Value(rs.frame.ret) = TRUE
                  /\ rs.frame.attempts = <<>>
                  /\ rs.frame.report = <<>>
            /\ ReportFailed(rs) => Value(rs.frame.ret) = TRUE

\* The batch returned an article, it was inserted, publish_report raised, and
\* do returned true.
C17_Witness ==
    \E r \in Runs :
        LET rs == run[r] IN
        /\ BatchRan(rs)
        /\ rs.frame.success_count = 1
        /\ Len(rs.frame.report) = 2
        /\ rs.frame.report[2].outcome = "raises"
        /\ Value(rs.frame.ret) = TRUE

\* All new articles of a list were in the store already: the batch returned
\* none and do returned true.
C17_WitnessNoNew ==
    \E r \in Runs :
        LET rs == run[r] IN
        /\ BatchRan(rs)
        /\ ~rs.crashed
        /\ \E i \in DOMAIN rs.outcome : rs.outcome[i] = "exists"
        /\ rs.ret = <<>>
        /\ Value(rs.frame.ret) = TRUE


(***************************************************************************)
(* do: the insertion loop.                                                 *)
(***************************************************************************)
\* No call of add_article raised: every failed insertion so far is the
\* sentinel of a URL already stored.
NoInsertRaised(rs) == \A k \in DOMAIN rs.frame.attempts : rs.frame.attempts[k] # 0

Inserted(rs) == {k \in DOMAIN rs.frame.attempts : rs.frame.attempts[k] > 0}

ActiveIds(table) ==
    LET act == get_active_sources(table) IN [i \in 1..Len(act) |-> act[i].id]

\* A call of do is under way.
InDo(rs) == rs.pc \notin {"main", "drv_loop", "exited"}

\* C19: a driver calls do once for every active source, in the order of the
\* list and one call at a time, whatever the earlier calls returned: the calls
\* made so far are a prefix of the active sources, each but a running one
\* has its result, at the end every active source was called, and the
\* aggregator exits with 0 exactly when every call returned true.
C19_DriverRunsEveryActiveSource ==
    \A r \in Runs :
        LET rs == run[r] IN
        "drv" \in DOMAIN rs =>
            LET ids == ActiveIds(rs.drv.table) IN
            /\ Len(rs.drv.invoked) <= Len(ids)
            /\ rs.drv.invoked = SubSeq(ids, 1, Len(rs.drv.invoked))
            /\ Len(rs.drv.results) = Len(rs.drv.invoked) - (IF InDo(rs) THEN 1 ELSE 0)
            /\ InDo(rs) => rs.frame.source_id = ids[Len(rs.drv.invoked)]
            /\ rs.pc = "exited" =>
                  /\ rs.drv.invoked = ids
                  /\ rs.drv.kind = "main" =>
                        (rs.drv.exit = Some(0)
                            <=> (ids # <<>> /\ \A k \in DOMAIN rs.drv.results :
                                                  rs.drv.results[k]))
                  /\ rs.drv.kind = "daily_task" => rs.drv.exit = None

\* The first of two active sources failed and the second was run all the
\* same; the aggregator exited with 1.
C19_Witness ==
    \E r \in Runs :
        LET rs == run[r] IN
        /\ "drv" \in DOMAIN rs
        /\ rs.pc = "exited"
        /\ rs.drv.kind = "main"
        /\ rs.drv.invoked = <<1, 2>>
        /\ rs.drv.results = <<FALSE, TRUE>>
        /\ rs.drv.exit = Some(1)


(***************************************************************************)
(* The articles table under concurrent insertions.                         *)
(***************************************************************************)
\* At most one row for a URL.
UniqueUrls == \A a \in store : \A b \in store : a.url = b.url => a = b

\* Writer w is about to run its INSERT for a URL that has a row.
InsertsPresentUrl(w) ==
    /\ run[w].pc = "insert"
    /\ run[w].frame.i <= Len(run[w].frame.articles)
    /\ ViolatesUnique(store, run[w].frame.articles[run[w].frame.i].url)

\* The call of writer w returned in this step (it did not raise).
AddArticleReturned(w) ==
    /\ Len(run'[w].frame.attempts) = Len(run[w].frame.attempts) + 1
    /\ run'[w].frame.error = "none"

\* C20: under every interleaving of add_article calls of concurrent runs the
\* table holds at most one row for a URL; a call for a URL that has a row
\* returns -1, and no step changes or removes a row.
C20_OneRecordPerUrl ==
    /\ []UniqueUrls
    /\ [][/\ \A a \in store : a \in store'
          /\ \A w \in DOMAIN run :
                (InsertsPresentUrl(w) /\ AddArticleReturned(w)) =>
                    /\ run'[w].frame.attempts[Len(run'[w].frame.attempts)] = -1
                    /\ store' = store]_vars

\* Two writers inserted the same new URL at the same time: the first has
\* its row and an id, the second the sentinel, and the row is the first's.
C20_Witness ==
    /\ DOMAIN run = Writers
    /\ run[1].frame.articles[1].url = "http://x/1"
    /\ run[2].frame.articles[1].url = "http://x/1"
    /\ Len(run[1].frame.attempts) >= 1
    /\ Len(run[2].frame.attempts) >= 1
    /\ run[1].frame.attempts[1] > 0
    /\ run[2].frame.attempts[1] = -1
    /\ \E a \in store : a.url = "http://x/1" /\ a.title = <<Run("T", 1)>>
    /\ UniqueUrls


(***************************************************************************)
(* download_and_convert_to_text: the sleeps of a download that fails.      *)
(***************************************************************************)
SleepsOf(log) == SelectSeq(log, LAMBDA e : e.e = "SLEEP")

\* C21: a download whose attempts all raise sleeps only between attempts:
\* 2 sleeps of 3 seconds, one before each retry, and none after the last
\* attempt.
C21_TwoDelaysNoneAfterLast ==
    \A r \in Runs :
        LET rs == run[r]
            log == rs.loc.dlog
        IN
        (rs.pc = "fetched" /\ Len(GetsOf(log)) = 3 /\ AllRaised(log)) =>
            /\ Len(SleepsOf(log)) = 2
            /\ log[Len(log)].e = "GET"


(***************************************************************************)
(* process_crawler_output: no retry at the level of the batch.             *)
(***************************************************************************)
\* C22: for every position of the candidate list the batch calls
\* download_and_convert_to_text on the item's url at most once, the
\* summarizer at most once and save_abstract_with_audio at most once; after a
\* failure of the summarizer the item is left with that one call and no
\* write.
C22_NoRetryInBatch ==
    \A r \in Runs :
        LET rs == run[r] IN
        \A i \in DOMAIN rs.eff :
            /\ rs.eff[i].downloads <= 1
            /\ rs.eff[i].summaries <= 1
            /\ rs.eff[i].writes <= 1
            /\ rs.outcome[i] = "nosummary" =>
                  /\ rs.eff[i].summaries = 1
                  /\ rs.eff[i].writes = 0
                  /\ rs.idx > i

\* The summarizer failed for the first item and the batch went on to return
\* the second.
C22_Witness ==
    \E r \in Runs :
        LET rs == run[r] IN
        /\ rs.pc = "returned"
        /\ Len(rs.articles) = 2
        /\ rs.outcome = <<"nosummary", "ok">>
        /\ rs.eff[1].summaries = 1
        /\ rs.eff[2].summaries = 1
        /\ Len(rs.ret) = 1


(***************************************************************************)
(* The order of the stages of an item, and of the run.                     *)
(***************************************************************************)
\* The item at position i of the batch was written and appended.
WrittenItem(rs, i) == rs.outcome[i] = "ok" /\ rs.eff[i].writes = 1

\* C23: the stages of an item come in one order, each behind the success of
\* the one before: no download without the lookup in the store, no call of
\* the summarizer without a downloaded text, no write without a summary, no
\* insertion of an article that was not written, and no report before
\* add_article was called for every article of the batch.
C23_StagesInOrder ==
    \A r \in Runs :
        LET rs == run[r] IN
        /\ \A i \in DOMAIN rs.eff :
              /\ rs.eff[i].downloads <= rs.eff[i].lookups
              /\ rs.eff[i].comment_downloads <= rs.eff[i].downloads
              /\ rs.eff[i].summaries <= rs.eff[i].downloads
              /\ rs.eff[i].writes <= rs.eff[i].summaries
        /\ rs.pc = "download" /\ rs.loc.target = "article" =>
              rs.eff[rs.idx].lookups = 1 /\ rs.eff[rs.idx].summaries = 0
        /\ rs.pc = "summarize" =>
              /\ rs.loc.text # <<>>
              /\ rs.eff[rs.idx].downloads = 1
              /\ rs.eff[rs.idx].summaries = 0
        /\ rs.pc = "save" =>
              rs.eff[rs.idx].summaries = 1 /\ rs.eff[rs.idx].writes = 0
        /\ "frame" \in DOMAIN rs =>
              /\ \A k \in DOMAIN rs.frame.articles :
                    /\ rs.frame.articles[k].abstract_file # None
                    /\ \E i \in DOMAIN rs.eff :
                          /\ WrittenItem(rs, i)
                          /\ rs.articles[i].url = rs.frame.articles[k].url
              /\ rs.frame.attempts # <<>> => rs.pc \notin {"loop", "download", "fetched",
                                                         "summarize", "save", "saved"}
              /\ rs.frame.report # <<>> =>
                    /\ rs.frame.articles # <<>>
                    /\ Len(rs.frame.attempts) = Len(rs.frame.articles)

\* Two articles went through lookup, download, summary and write, both were
\* inserted, and the report was generated.
C23_Witness ==
    \E r \in Runs :
        LET rs == run[r] IN
        /\ "frame" \in DOMAIN rs
        /\ rs.pc = "publish"
        /\ Len(rs.frame.articles) = 2
        /\ rs.frame.attempts = <<1, 2>>
        /\ \A i \in 1..2 : WrittenItem(rs, i) /\ rs.eff[i].lookups = 1
        /\ Len(rs.frame.report) = 1


(***************************************************************************)
(* extract_comments: the name between the brackets.                        *)
(***************************************************************************)
Anonymous == Word(<<"a", "n", "o", "n", "y", "m", "o", "u", "s">>)

\* The author of a node is missing, null or the empty string.
NoAuthor(node) ==
    \/ "author" \notin DOMAIN node
    \/ node.author.t = "null"
    \/ node.author.v = <<>>

\* The part of a line between "[" and "]: ", the indentation of its level
\* taken off.
NameInLine(line, level) ==
    LET body == IF level = 0 THEN line ELSE Tail(line)
        close == CHOOSE i \in 1..Len(body) :
                     /\ body[i].c = "]"
                     /\ \A j \in 1..(i - 1) : body[j].c # "]"
    IN SubSeq(body, 2, close - 1)

\* C24: the line of a node with a text names 'anonymous' where the author of
\* the node is missing, null or empty, and the author otherwise.
C24_AnonymousForNoAuthor ==
    \A r \in Runs :
        LET rs == run[r] IN
        rs.pc = "flattened" =>
            LET paths == TextPathsOf(rs.data)
            IN \A p \in paths :
                  LET k == Cardinality({q \in paths : PathBefore(q, p)}) + 1
                      node == NodeAt(rs.data, p)
                  IN NameInLine(rs.lines[k], Len(p)) =
                        IF NoAuthor(node) THEN Anonymous ELSE node.author.v


(***************************************************************************)
(* The artifact path.                                                      *)
(***************************************************************************)
\* None of / \ : * ? " < > | and no whitespace.
HasNoUnsafeChar(s) ==
    \A i \in 1..Len(s) :
        s[i].c \notin {"/", "\\", ":", "*", "?", "\"", "<", ">", "|",
                       "SP", "TAB", "NL", "CR"}

\* C25: the path is root / sanitize(source_name) / day of the timestamp /
\* "{timestamp}_{sanitize(title)}.txt": the source directory is what
\* sanitize_filename makes of the source name, one component without an
\* unsafe character or whitespace.
C25_SourceDirSanitized ==
    \A r \in Runs :
        LET rs == run[r] IN
        rs.pc = "built" =>
            LET path == Value(rs.path) IN
            /\ path.root = "abstraction"
            /\ path.day = DateStr(rs.timestamp)
            /\ path.ts = rs.timestamp
            /\ path.title = sanitize_filename(rs.title)
            /\ path.ext = ".txt"
            /\ path.source = sanitize_filename(rs.source_name)
            /\ HasNoUnsafeChar(path.source)


(***************************************************************************)
(* A URL more than once in the candidate list.                             *)
(***************************************************************************)
\* Position i was processed to the end and has the URL of position j.
ProcessedEarlier(rs, i, j) ==
    /\ i < j
    /\ rs.outcome[i] = "ok"
    /\ HasRequiredKeys(rs.articles[j])
    /\ rs.articles[i].url = rs.articles[j].url

\* C26: the batch returns at most one article per URL: an item whose URL was
\* processed earlier in the same batch is not downloaded, summarized or
\* written again.
C26_OneArticlePerUrl ==
    \A r \in Runs :
        LET rs == run[r] IN
        /\ \A j \in DOMAIN rs.outcome : \A i \in 1..(j - 1) :
              ProcessedEarlier(rs, i, j) =>
                  /\ rs.eff[j].downloads = 0
                  /\ rs.eff[j].summaries = 0
                  /\ rs.eff[j].writes = 0
        /\ rs.pc = "returned" =>
              \A j, k \in DOMAIN rs.ret : rs.ret[j].url = rs.ret[k].url => j = k


(***************************************************************************)
(* The artifact files a batch leaves behind.                               *)
(***************************************************************************)
\* The files that were not there before the batch.
CreatedFiles == DOMAIN files \ {a.abstract_file[1] : a \in store}

\* The returned articles whose abstract_file is path.
ReturnedWith(rs, path) ==
    {j \in DOMAIN rs.ret : rs.ret[j].abstract_file = Some(path)}

\* C27: when the batch has returned, every artifact file created during it is
\* the abstract_file of exactly one returned article; a skipped item, a write
\* reported as failed or an empty result leaves no file.
C27_FilesMatchReturnedArticles ==
    \A r \in Runs :
        run[r].pc = "returned" =>
            \A path \in CreatedFiles : Cardinality(ReturnedWith(run[r], path)) = 1


(***************************************************************************)
(* The articles of the report.                                             *)
(***************************************************************************)
\* C28: every article handed to the report step was inserted into the store
\* by add_article during this call of do: an article whose insertion gave
\* the sentinel is not among them.
C28_ReportOnlyInsertedArticles ==
    \A r \in Runs :
        LET rs == run[r] IN
        "frame" \in DOMAIN rs =>
            \A n \in DOMAIN rs.frame.report :
                \A k \in DOMAIN rs.frame.report[n].articles :
                    /\ k \in Inserted(rs)
                    /\ \E row \in store :
                          /\ row.id = rs.frame.attempts[k]
                          /\ row.url = rs.frame.report[n].articles[k].url


(***************************************************************************)
(* The artifact paths of one batch.                                        *)
(***************************************************************************)
\* C29: two items of one batch that differ in title or in publish timestamp
\* are never written to the same artifact path.
C29_DistinctItemsDistinctPaths ==
    \A r \in Runs :
        LET done == run[r].processed_articles IN
        \A i, j \in DOMAIN done :
            (done[i].title # done[j].title
                \/ done[i].publish_timestamp # done[j].publish_timestamp)
                => done[i].abstract_file # done[j].abstract_file


(***************************************************************************)
(* Two runs over one list.                                                 *)
(***************************************************************************)
\* The URLs a run has called the summarizer for, has written an artifact
\* for, and has handed to a report that was generated.
SummarizedUrls(rs) ==
    {rs.articles[i].url : i \in {k \in DOMAIN rs.eff : rs.eff[k].summaries > 0}}

WrittenUrls(rs) ==
    {rs.articles[i].url : i \in {k \in DOMAIN rs.eff : rs.eff[k].writes > 0}}

ReportedUrls(rs) ==
    UNION {{e.articles[k].url : k \in DOMAIN e.articles} :
             e \in {rs.frame.report[n] : n \in
                      {m \in DOMAIN rs.frame.report :
                          /\ rs.frame.report[m].step = "generate"
                          /\ rs.frame.report[m].outcome = "report"}}}

\* No URL is worked on by both runs.
DisjointWork ==
    \A d, e \in DOMAIN run :
        d # e =>
            /\ SummarizedUrls(run[d]) \cap SummarizedUrls(run[e]) = {}
            /\ WrittenUrls(run[d]) \cap WrittenUrls(run[e]) = {}
            /\ ReportedUrls(run[d]) \cap ReportedUrls(run[e]) = {}

\* A step that writes the artifact file named by a row of the store.
RewritesStoredFile ==
    \E d \in DOMAIN run :
        /\ run[d].pc = "save"
        /\ run'[d].pc = "saved"
        /\ run'[d].loc.abstract_file # None
        /\ \E row \in store : row.abstract_file = run'[d].loc.abstract_file

\* C30: when two runs for one source work on the same list at the same
\* time, every new URL is summarized and written by one of them at most and
\* is in one generated report at most, and the artifact file a stored row
\* names is not written again after the row was inserted.
C30_ConcurrentRunsShareNoWork ==
    []DisjointWork /\ [][~RewritesStoredFile]_vars

=============================================================================
